---- MODULE Spec2Model ----
(***************************************************************************)
(* Model of the trading-signal SaaS services and their database.           *)
(*                                                                         *)
(* State: the tables of the migration (users, user_profiles,               *)
(* user_subscriptions, trading_signals, purchases, admin_notifications),   *)
(* the auth provider's identities, the database clock, the one service     *)
(* call in flight (its position and locals) and the value the last call    *)
(* resolved with.  Every await of a service is one step; the provider      *)
(* answers a step with data or with an error, so every step draws its      *)
(* outcome.  Calls of different browser sessions are serialised: a call    *)
(* starts only when no call is in flight.                                  *)
(***************************************************************************)
EXTENDS Integers, Sequences, FiniteSets, TLC

\* ---------------------------------------------------------------- bounds
MaxUsers == 2
MaxPurchases == 2
MaxSignals == 2
\* the last day the clock reaches, and the months the calendar spans
MaxTime == 62
CalendarMonths == 24
MaxOtherRows == 1
\* the calls AdminPurchaseNotifications has in flight at once
MaxFetches == 1

\* ------------------------------------------------------- input domains
Emails == {"a@x.io", "b@x.io"}
Passwords == {"pw1", "pw2"}
Salts == {"salt1"}
\* plan_type strings the callers pass: two tiers of the schema and one
\* string the schema's CHECK rejects
PlanTypeArgs == {"starter", "enterprise", "gold"}
\* the plan_type strings of a purchase
PaidPlanTypes == {"starter", "enterprise"}
SignalTypes == {"crypto", "forex"}
\* a userId argument: 0 is a falsy argument (undefined or ''), the rest uuids
UserIdArgs == 0..MaxUsers

\* ---------------------------------------------------------------- state
VARIABLES
  users,
  authUsers,
  user_profiles,
  user_subscriptions,
  trading_signals,
  purchases,
  admin_notifications,
  hasPasswordHash,
  now,
  call,
  result,
  planQueries,
  user_signal_access,
  mt5_accounts,
  mt5_trades,
  mt5_performance,
  email_logs,
  session,
  notifications,
  unreadCount,
  isLoading,
  showAll,
  mounted,
  fetches,
  location,
  gates

\* the tables the purchase, signal and auth services above never write
otherTables == <<user_signal_access, mt5_accounts, mt5_trades, mt5_performance, email_logs>>

\* AdminPurchaseNotifications: its four useState cells, whether its mount
\* effect has run, and its calls in flight
component == <<notifications, unreadCount, isLoading, showAll, mounted, fetches>>

\* the router's location and what the three route gates read
router == <<location, gates>>

\* the browser: the client's session, the component, the router
browser == <<session, component, router>>

vars == <<users, authUsers, user_profiles, user_subscriptions, trading_signals,
          purchases, admin_notifications, hasPasswordHash, now, call, result,
          planQueries, otherTables, browser>>

tables == <<users, authUsers, user_profiles, user_subscriptions, trading_signals,
            purchases, admin_notifications, hasPasswordHash, now>>

\* ------------------------------------------------------------- JS values
\* a timestamptz column that is NULL
NoTime == -1
\* a text column that is absent (the dropped password_hash)
NoHash == <<>>
Idle == [op |-> "idle"]
NoResult == [op |-> "none"]
NoRow == [id |-> 0]
\* a slot of the component's calls in flight that holds none
Free == [op |-> "free"]

Truthy(userId) == userId # 0

\* { data, error } of .maybeSingle(): the row when exactly one matches, null
\* when none does, and null (with an error) when several do
MaybeSingle(rows) ==
  IF Cardinality(rows) = 1 THEN CHOOSE r \in rows : TRUE ELSE NoRow

\* a uuid primary key: a value no row of the table holds
FreshId(rows) == Cardinality(rows) + 1

UserIdsInUse == {u.id : u \in users} \cup {a.id : a \in authUsers}

\* ------------------------------------------------------------- bcryptjs
BcryptHash(password, salt) == <<"$2a$", 10, salt, password>>

BcryptCompareThrows(hash) == hash = NoHash

BcryptCompare(password, hash) ==
  /\ hash # NoHash
  /\ hash = BcryptHash(password, hash[3])

\* ------------------------------------------------------ getPlanDetails
\* own properties of Object.prototype, which every object literal inherits
ObjectPrototypeKeys ==
  {"constructor", "toString", "valueOf", "hasOwnProperty", "isPrototypeOf",
   "propertyIsEnumerable", "toLocaleString", "__proto__"}

Undefined == [kind |-> "undefined"]

\* plans[planType]: an own property, else an inherited one, else undefined
PropertyLookup(obj, key) ==
  IF key \in DOMAIN obj THEN obj[key]
  ELSE IF key \in ObjectPrototypeKeys THEN [kind |-> "inherited", key |-> key]
  ELSE Undefined

\* a || b
OrElse(a, b) == IF a = Undefined THEN b ELSE a

Legacy_plans ==
  [kickstarter |-> [name |-> "Kickstarter", price |-> 0, period |-> "month", features |-> 5],
   starter |-> [name |-> "Starter", price |-> 99, period |-> "month", features |-> 7],
   pro |-> [name |-> "Pro", price |-> 199, period |-> "month", features |-> 11],
   enterprise |-> [name |-> "Enterprise", price |-> 499, period |-> "3 months", features |-> 12]]

Legacy_getPlanDetails(planType) ==
  OrElse(PropertyLookup(Legacy_plans, planType), Legacy_plans.starter)

Purchase_plans ==
  [kickstarter |-> [name |-> "Kickstarter", price |-> 0, period |-> "month", features |-> 5],
   starter |-> [name |-> "Starter", price |-> 99, period |-> "month", features |-> 7],
   pro |-> [name |-> "Pro", price |-> 199, period |-> "month", features |-> 11],
   enterprise |-> [name |-> "Enterprise", price |-> 499, period |-> "3 months", features |-> 12]]

Purchase_getPlanDetails(planType) ==
  OrElse(PropertyLookup(Purchase_plans, planType), Purchase_plans.starter)

Provider_plans ==
  [kickstarter |-> [name |-> "Kickstarter", price |-> 0, period |-> "month", features |-> 5],
   starter |-> [name |-> "Starter", price |-> 99, period |-> "month", features |-> 7],
   pro |-> [name |-> "Pro", price |-> 199, period |-> "month", features |-> 11],
   enterprise |-> [name |-> "Enterprise", price |-> 499, period |-> "3 months", features |-> 12]]

Provider_getPlanDetails(planType) ==
  OrElse(PropertyLookup(Provider_plans, planType), Provider_plans.starter)

\* ------------------------------------------------------ schema constraints
\* user_subscriptions.plan_type CHECK
SubscriptionPlanTypes == {"kickstarter", "starter", "pro", "enterprise"}

\* users.email UNIQUE
EmailTaken(email) == \E u \in users : u.email = email

\* REFERENCES users(id)
UserExists(userId) == \E u \in users : u.id = userId

\* ------------------------------------------------------------- results
Fail(op, args, message, log) ==
  [op |-> op, args |-> args, success |-> FALSE, error |-> message, log |-> log]

\* one provider call of the log: what was called and whether it gave an error
Ev(what, ok) == [what |-> what, ok |-> ok]

Init ==
  /\ users = {}
  /\ authUsers = {}
  /\ user_profiles = {}
  /\ user_subscriptions = {}
  /\ trading_signals = {}
  /\ purchases = {}
  /\ admin_notifications = {}
  /\ hasPasswordHash = TRUE
  /\ now = 0
  /\ call = Idle
  /\ result = NoResult
  /\ planQueries = <<>>
  /\ user_signal_access = {}
  /\ mt5_accounts = {}
  /\ mt5_trades = {}
  /\ mt5_performance = {}
  /\ email_logs = {}
  /\ session = 0
  /\ notifications = <<>>
  /\ unreadCount = 0
  /\ isLoading = TRUE
  /\ showAll = FALSE
  /\ mounted = FALSE
  /\ fetches = [k \in 1..MaxFetches |-> Free]
  /\ location = "/"
  /\ gates = [user |-> FALSE, admin |-> FALSE, customerService |-> FALSE]

\* ------------------------------------------- legacy authService.signUp
Legacy_signUp_Start(email, password, salt, planType) ==
  /\ call = Idle
  /\ Cardinality(UserIdsInUse) < MaxUsers
  /\ call' = [op |-> "legacy.signUp", pc |-> "insertUser",
              args |-> [email |-> email, password |-> password, plan_type |-> planType],
              passwordHash |-> BcryptHash(password, salt), userId |-> 0, log |-> <<>>]
  /\ result' = NoResult
  /\ UNCHANGED <<tables, planQueries, otherTables, browser>>

Legacy_signUp_InsertUser ==
  /\ call.op = "legacy.signUp" /\ call.pc = "insertUser"
  /\ \E ok \in BOOLEAN :
       LET accepted == ok /\ hasPasswordHash /\ ~EmailTaken(call.args.email)
           id == FreshId(UserIdsInUse)
           log == Append(call.log, Ev("insert users", accepted))
       IN IF accepted
          THEN /\ users' = users \cup
                     {[id |-> id, email |-> call.args.email,
                       password_hash |-> call.passwordHash,
                       role |-> "user", is_active |-> TRUE]}
               /\ call' = [call EXCEPT !.pc = "insertProfile", !.userId = id, !.log = log]
               /\ result' = NoResult
          ELSE /\ users' = users
               /\ call' = Idle
               /\ result' = Fail(call.op, call.args, "insert users failed", log)
  /\ UNCHANGED <<authUsers, user_profiles, user_subscriptions, trading_signals,
                 purchases, admin_notifications, hasPasswordHash, now, planQueries, otherTables, browser>>

Legacy_signUp_InsertProfile ==
  /\ call.op = "legacy.signUp" /\ call.pc = "insertProfile"
  /\ \E ok \in BOOLEAN :
       LET accepted == ok /\ UserExists(call.userId)
           log == Append(call.log, Ev("insert user_profiles", accepted))
       IN IF accepted
          THEN /\ user_profiles' = user_profiles \cup
                     {[id |-> FreshId(user_profiles), user_id |-> call.userId]}
               /\ call' = [call EXCEPT !.pc = "insertSubscription", !.log = log]
               /\ result' = NoResult
          ELSE /\ user_profiles' = user_profiles
               /\ call' = Idle
               /\ result' = Fail(call.op, call.args, "insert user_profiles failed", log)
  /\ UNCHANGED <<users, authUsers, user_subscriptions, trading_signals,
                 purchases, admin_notifications, hasPasswordHash, now, planQueries, otherTables, browser>>

\* faulty variant of the row below: inserted already active
Legacy_signUp_ActiveSubscriptionRow(userId, planType) ==
  [id |-> FreshId(user_subscriptions), user_id |-> userId, plan_type |-> planType,
   plan_name |-> Legacy_getPlanDetails(planType).name,
   status |-> "active", started_at |-> NoTime, expires_at |-> NoTime]

\* the user_subscriptions row signUp inserts
Legacy_signUp_SubscriptionRow(userId, planType) ==
  [id |-> FreshId(user_subscriptions), user_id |-> userId, plan_type |-> planType,
   plan_name |-> Legacy_getPlanDetails(planType).name,
   status |-> "pending", started_at |-> NoTime, expires_at |-> NoTime]

Legacy_signUp_InsertSubscription ==
  /\ call.op = "legacy.signUp" /\ call.pc = "insertSubscription"
  /\ \E ok \in BOOLEAN :
       LET accepted == ok /\ UserExists(call.userId)
                          /\ call.args.plan_type \in SubscriptionPlanTypes
           log == Append(call.log, Ev("insert user_subscriptions", accepted))
       IN IF accepted
          THEN /\ user_subscriptions' = user_subscriptions \cup
                     {Legacy_signUp_SubscriptionRow(call.userId, call.args.plan_type)}
               /\ result' = [op |-> call.op, args |-> call.args, success |-> TRUE,
                             error |-> "", log |-> log,
                             user |-> [id |-> call.userId, email |-> call.args.email,
                                       plan_type |-> call.args.plan_type]]
          ELSE /\ user_subscriptions' = user_subscriptions
               /\ result' = Fail(call.op, call.args, "insert user_subscriptions failed", log)
  /\ call' = Idle
  /\ UNCHANGED <<users, authUsers, user_profiles, trading_signals,
                 purchases, admin_notifications, hasPasswordHash, now, planQueries, otherTables, browser>>

\* ------------------------------------------- legacy authService.signIn
Legacy_signIn_Start(email, password) ==
  /\ call = Idle
  /\ call' = [op |-> "legacy.signIn", pc |-> "selectUser",
              args |-> [email |-> email, password |-> password],
              user |-> NoRow, profile |-> NoRow, log |-> <<>>]
  /\ result' = NoResult
  /\ UNCHANGED <<tables, planQueries, otherTables, browser>>

\* faulty variant of the checks below: the password is not compared
Legacy_signIn_NoPasswordCheck(user, password) ==
  IF user = NoRow THEN "Invalid email or password"
  ELSE IF ~user.is_active THEN "Account is deactivated"
  ELSE "pass"

\* the checks between the users query and the profile query
Legacy_signIn_Check(user, password) ==
  IF user = NoRow THEN "Invalid email or password"
  ELSE IF BcryptCompareThrows(user.password_hash) THEN "Illegal arguments: string, undefined"
  ELSE IF ~BcryptCompare(password, user.password_hash) THEN "Invalid email or password"
  ELSE IF ~user.is_active THEN "Account is deactivated"
  ELSE "pass"

Legacy_signIn_SelectUser ==
  /\ call.op = "legacy.signIn" /\ call.pc = "selectUser"
  /\ \E ok \in BOOLEAN :
       LET user == MaybeSingle({u \in users : u.email = call.args.email})
           log == Append(call.log, Ev("select users", ok))
           verdict == IF ok THEN Legacy_signIn_Check(user, call.args.password)
                      ELSE "select users failed"
       IN IF verdict = "pass"
          THEN /\ call' = [call EXCEPT !.pc = "selectProfile", !.user = user, !.log = log]
               /\ result' = NoResult
          ELSE /\ call' = Idle
               /\ result' = Fail(call.op, call.args, verdict, log)
  /\ UNCHANGED <<tables, planQueries, otherTables, browser>>

Legacy_signIn_SelectProfile ==
  /\ call.op = "legacy.signIn" /\ call.pc = "selectProfile"
  /\ \E ok \in BOOLEAN :
       LET profile == IF ok THEN MaybeSingle({p \in user_profiles : p.user_id = call.user.id})
                      ELSE NoRow
       IN call' = [call EXCEPT !.pc = "selectSubscription", !.profile = profile,
                               !.log = Append(call.log, Ev("select user_profiles", ok))]
  /\ result' = NoResult
  /\ UNCHANGED <<tables, planQueries, otherTables, browser>>

Legacy_signIn_SelectSubscription ==
  /\ call.op = "legacy.signIn" /\ call.pc = "selectSubscription"
  /\ \E ok \in BOOLEAN :
       LET subscription ==
             IF ok THEN MaybeSingle({s \in user_subscriptions :
                                       s.user_id = call.user.id /\ s.status = "active"})
             ELSE NoRow
       IN result' = [op |-> call.op, args |-> call.args, success |-> TRUE, error |-> "",
                     log |-> Append(call.log, Ev("select user_subscriptions", ok)),
                     user |-> [id |-> call.user.id, email |-> call.user.email,
                               role |-> call.user.role, profile |-> call.profile,
                               subscription |-> subscription]]
  /\ call' = Idle
  /\ UNCHANGED <<tables, planQueries, otherTables, browser>>

\* ---------------------------- provider-delegating authService.signUp
\* the bindings in scope where the user_subscriptions row is built
Provider_signUp_Scope ==
  {"data", "authData", "authError", "uniqueId", "profileError", "planDetails", "supabase"}

\* evaluating an identifier: a ReferenceError when nothing binds it
Resolves(name, scope) == name \in scope

Provider_signUp_Start(email, password, planType) ==
  /\ call = Idle
  /\ Cardinality(UserIdsInUse) < MaxUsers
  /\ call' = [op |-> "provider.signUp", pc |-> "authSignUp",
              args |-> [email |-> email, password |-> password, plan_type |-> planType],
              authUserId |-> 0, log |-> <<>>]
  /\ result' = NoResult
  /\ UNCHANGED <<tables, planQueries, otherTables, browser>>

\* supabase.auth.signUp answers with an error, with no user, or with a user.
\* No service inserts the users row of a provider identity; whether the
\* database holds one (its id the identity's) is the environment's choice.
Provider_signUp_AuthSignUp ==
  /\ call.op = "provider.signUp" /\ call.pc = "authSignUp"
  /\ \E answer \in {"error", "no user", "user"}, mirrored \in BOOLEAN :
       LET created == /\ answer = "user"
                      /\ ~\E a \in authUsers : a.email = call.args.email
           id == FreshId(UserIdsInUse)
           log == Append(call.log, Ev("auth.signUp", answer # "error" /\ (answer = "user" => created)))
       IN IF created
          THEN /\ authUsers' = authUsers \cup {[id |-> id, email |-> call.args.email]}
               /\ users' = IF mirrored /\ ~EmailTaken(call.args.email)
                           THEN users \cup {[id |-> id, email |-> call.args.email,
                                             password_hash |-> NoHash,
                                             role |-> "user", is_active |-> TRUE]}
                           ELSE users
               /\ call' = [call EXCEPT !.pc = "insertProfile", !.authUserId = id, !.log = log]
               /\ result' = NoResult
          ELSE /\ ~mirrored
               /\ UNCHANGED <<authUsers, users>>
               /\ call' = Idle
               /\ result' = Fail(call.op, call.args,
                                 IF answer = "no user" THEN "User creation failed"
                                 ELSE "auth signUp failed", log)
  /\ UNCHANGED <<user_profiles, user_subscriptions, trading_signals,
                 purchases, admin_notifications, hasPasswordHash, now, planQueries, otherTables, browser>>

Provider_signUp_InsertProfile ==
  /\ call.op = "provider.signUp" /\ call.pc = "insertProfile"
  /\ \E ok \in BOOLEAN :
       LET accepted == ok /\ UserExists(call.authUserId)
           log == Append(call.log, Ev("insert user_profiles", accepted))
       IN IF accepted
          THEN /\ user_profiles' = user_profiles \cup
                     {[id |-> FreshId(user_profiles), user_id |-> call.authUserId]}
               /\ call' = [call EXCEPT !.pc = "insertSubscription", !.log = log]
               /\ result' = NoResult
          ELSE /\ user_profiles' = user_profiles
               /\ call' = Idle
               /\ result' = Fail(call.op, call.args, "insert user_profiles failed", log)
  /\ UNCHANGED <<users, authUsers, user_subscriptions, trading_signals,
                 purchases, admin_notifications, hasPasswordHash, now, planQueries, otherTables, browser>>

\* the row is built from user.id; the insert is issued only if that evaluates
Provider_signUp_InsertSubscription ==
  /\ call.op = "provider.signUp" /\ call.pc = "insertSubscription"
  /\ IF ~Resolves("user", Provider_signUp_Scope)
     THEN /\ user_subscriptions' = user_subscriptions
          /\ result' = Fail(call.op, call.args, "user is not defined", call.log)
     ELSE \E ok \in BOOLEAN :
       LET planDetails == Provider_getPlanDetails(call.args.plan_type)
           accepted == ok /\ UserExists(call.authUserId)
                          /\ call.args.plan_type \in SubscriptionPlanTypes
           log == Append(call.log, Ev("insert user_subscriptions", accepted))
       IN IF accepted
          THEN /\ user_subscriptions' = user_subscriptions \cup
                     {[id |-> FreshId(user_subscriptions), user_id |-> call.authUserId,
                       plan_type |-> call.args.plan_type, plan_name |-> planDetails.name,
                       status |-> "pending", started_at |-> NoTime, expires_at |-> NoTime]}
               /\ result' = [op |-> call.op, args |-> call.args, success |-> TRUE,
                             error |-> "", log |-> log,
                             user |-> [id |-> call.authUserId, email |-> call.args.email,
                                       plan_type |-> call.args.plan_type]]
          ELSE /\ user_subscriptions' = user_subscriptions
               /\ result' = Fail(call.op, call.args, "insert user_subscriptions failed", log)
  /\ call' = Idle
  /\ UNCHANGED <<users, authUsers, user_profiles, trading_signals,
                 purchases, admin_notifications, hasPasswordHash, now, planQueries, otherTables, browser>>

\* ------------------------------------------------- database-side steps
\* policy "Users can update own data": an identity rewrites its own users row
UsersCanUpdateOwnData(uid, patch) ==
  /\ call = Idle
  /\ \E u \in users :
       /\ u.id = uid
       /\ LET v == IF patch = "deactivate" THEN [u EXCEPT !.is_active = FALSE]
                   ELSE [u EXCEPT !.role = "admin"]
          IN /\ v # u
             /\ users' = (users \ {u}) \cup {v}
  /\ result' = NoResult
  /\ UNCHANGED <<authUsers, user_profiles, user_subscriptions, trading_signals,
                 purchases, admin_notifications, hasPasswordHash, now, call, planQueries, otherTables, browser>>

\* the second migration: ALTER TABLE users DROP COLUMN password_hash
DropPasswordHash ==
  /\ call = Idle
  /\ hasPasswordHash
  /\ hasPasswordHash' = FALSE
  /\ users' = {[u EXCEPT !.password_hash = NoHash] : u \in users}
  /\ result' = NoResult
  /\ UNCHANGED <<authUsers, user_profiles, user_subscriptions, trading_signals,
                 purchases, admin_notifications, now, call, planQueries, otherTables, browser>>

SpecAuthNext ==
  \/ \E e \in Emails, p \in Passwords, s \in Salts, t \in PlanTypeArgs :
       Legacy_signUp_Start(e, p, s, t)
  \/ Legacy_signUp_InsertUser
  \/ Legacy_signUp_InsertProfile
  \/ Legacy_signUp_InsertSubscription
  \/ \E e \in Emails, p \in Passwords : Legacy_signIn_Start(e, p)
  \/ Legacy_signIn_SelectUser
  \/ Legacy_signIn_SelectProfile
  \/ Legacy_signIn_SelectSubscription
  \/ \E e \in Emails, p \in Passwords, t \in PlanTypeArgs : Provider_signUp_Start(e, p, t)
  \/ Provider_signUp_AuthSignUp
  \/ Provider_signUp_InsertProfile
  \/ Provider_signUp_InsertSubscription
  \/ \E u \in 1..MaxUsers : UsersCanUpdateOwnData(u, "deactivate")
  \/ DropPasswordHash

SpecAuth == Init /\ [][SpecAuthNext]_vars

\* ------------------------------------------------------- purchaseService
\* faulty variant of the trigger below: the SELECT has no WHERE
notify_admin_on_purchase_AllUsers(NEWROW) ==
  {[id |-> FreshId(admin_notifications) + (u.id - 1), notification_type |-> "purchase",
    related_user_id |-> NEWROW.user_id, related_purchase_id |-> NEWROW.id,
    is_read |-> FALSE, created_at |-> now] : u \in users}

\* trigger_notify_admin_on_purchase: AFTER INSERT ON purchases FOR EACH ROW
notify_admin_on_purchase(NEWROW) ==
  {[id |-> FreshId(admin_notifications), notification_type |-> "purchase",
    related_user_id |-> NEWROW.user_id, related_purchase_id |-> NEWROW.id,
    is_read |-> FALSE, created_at |-> now] : u \in {u \in users : u.id = NEWROW.user_id}}

\* the purchases row of createPurchase's insert
PurchaseRow(userId, planType) ==
  [id |-> FreshId(purchases), user_id |-> userId, plan_type |-> planType,
   payment_status |-> "completed"]

\* the insert is accepted when the provider answers with no error, userId is
\* a uuid ('' is none) and the users row it references exists
PurchaseAccepted(ok, userId) == ok /\ Truthy(userId) /\ UserExists(userId)

createPurchase_Start(userId, planType) ==
  /\ call = Idle
  /\ Cardinality(purchases) < MaxPurchases
  /\ call' = [op |-> "createPurchase", pc |-> "insertPurchase",
              args |-> [userId |-> userId, planType |-> planType], log |-> <<>>]
  /\ result' = NoResult
  /\ UNCHANGED <<tables, planQueries, otherTables, browser>>

createPurchase_InsertPurchase ==
  /\ call.op = "createPurchase" /\ call.pc = "insertPurchase"
  /\ \E ok \in BOOLEAN :
       LET accepted == PurchaseAccepted(ok, call.args.userId)
           purchase == PurchaseRow(call.args.userId, call.args.planType)
           log == Append(call.log, Ev("insert purchases", accepted))
       IN IF accepted
          THEN /\ purchases' = purchases \cup {purchase}
               /\ admin_notifications' =
                    admin_notifications \cup notify_admin_on_purchase(purchase)
               /\ result' = [op |-> call.op, args |-> call.args, success |-> TRUE,
                             error |-> "", log |-> log, purchase |-> purchase]
          ELSE /\ UNCHANGED <<purchases, admin_notifications>>
               /\ result' = Fail(call.op, call.args, "insert purchases failed", log)
  /\ call' = Idle
  /\ UNCHANGED <<users, authUsers, user_profiles, user_subscriptions, trading_signals,
                 hasPasswordHash, now, planQueries, otherTables, browser>>

\* ---------------------------------------------------------------- Date
\* A time is a count of days, day 0 being 1 January of a year that is not a
\* leap year and is followed by none within CalendarMonths months; the time
\* of day, which setMonth keeps, is left out.
DaysInMonth == <<31, 28, 31, 30, 31, 30, 31, 31, 30, 31, 30, 31>>

\* the first day of month m, months counted from month 0 of day 0
MonthStart[m \in 0..(CalendarMonths + 1)] ==
  IF m = 0 THEN 0 ELSE MonthStart[m - 1] + DaysInMonth[((m - 1) % 12) + 1]

\* 12 * getFullYear() + getMonth(), from the year of day 0
Date_getMonth(t) ==
  CHOOSE m \in 0..CalendarMonths : MonthStart[m] <= t /\ t < MonthStart[m + 1]

\* getDate(): the day of the month, from 1
Date_getDate(t) == t - MonthStart[Date_getMonth(t)] + 1

\* setMonth(m): the same day of the month in month m; a day the month does
\* not have runs over into the month after it
Date_setMonth(t, m) == MonthStart[m] + Date_getDate(t) - 1

\* expiresAt = new Date(); expiresAt.setMonth(expiresAt.getMonth() + n)
ExpiresAt(t, planType) ==
  Date_setMonth(t, Date_getMonth(t) + (IF planType = "enterprise" THEN 3 ELSE 1))

\* .update({...}).eq('user_id', userId).eq('plan_type', planType)
ActivatedSubscriptions(userId, planType) ==
  {IF s.user_id = userId /\ s.plan_type = planType
   THEN [s EXCEPT !.status = "active", !.started_at = now,
                  !.expires_at = ExpiresAt(now, planType)]
   ELSE s : s \in user_subscriptions}

activateSubscription_Start(userId, planType) ==
  /\ call = Idle
  /\ call' = [op |-> "activateSubscription", pc |-> "updateSubscription",
              args |-> [userId |-> userId, planType |-> planType], log |-> <<>>]
  /\ result' = NoResult
  /\ UNCHANGED <<tables, planQueries, otherTables, browser>>

activateSubscription_Update ==
  /\ call.op = "activateSubscription" /\ call.pc = "updateSubscription"
  /\ \E ok \in BOOLEAN :
       LET log == Append(call.log, Ev("update user_subscriptions", ok))
       IN IF ok
          THEN /\ user_subscriptions' =
                    ActivatedSubscriptions(call.args.userId, call.args.planType)
               /\ result' = [op |-> call.op, args |-> call.args, success |-> TRUE,
                             error |-> "", log |-> log]
          ELSE /\ user_subscriptions' = user_subscriptions
               /\ result' = Fail(call.op, call.args, "update user_subscriptions failed", log)
  /\ call' = Idle
  /\ UNCHANGED <<users, authUsers, user_profiles, trading_signals, purchases,
                 admin_notifications, hasPasswordHash, now, planQueries, otherTables, browser>>

\* faulty variant of the control flow below: a failed insert is not returned
processPurchaseAndNotify_ContinuesOnFailure(pc, ok) ==
  IF pc = "createPurchase" THEN "activateSubscription"
  ELSE IF pc = "activateSubscription" THEN "sendPaymentSuccessEmail"
  ELSE "return"

\* processPurchaseAndNotify: where control goes after the step at pc, given
\* whether that step succeeded
processPurchaseAndNotify_Next(pc, ok) ==
  IF pc = "createPurchase" THEN (IF ok THEN "activateSubscription" ELSE "return")
  ELSE IF pc = "activateSubscription" THEN "sendPaymentSuccessEmail"
  ELSE "return"

processPurchaseAndNotify_Start(userId, planType) ==
  /\ call = Idle
  /\ Cardinality(purchases) < MaxPurchases
  /\ call' = [op |-> "processPurchaseAndNotify", pc |-> "createPurchase",
              args |-> [userId |-> userId, planType |-> planType],
              purchase |-> NoRow, log |-> <<>>]
  /\ result' = NoResult
  /\ UNCHANGED <<tables, planQueries, otherTables, browser>>

processPurchaseAndNotify_CreatePurchase ==
  /\ call.op = "processPurchaseAndNotify" /\ call.pc = "createPurchase"
  /\ \E ok \in BOOLEAN :
       LET accepted == PurchaseAccepted(ok, call.args.userId)
           purchase == PurchaseRow(call.args.userId, call.args.planType)
           log == Append(call.log, Ev("insert purchases", accepted))
           next == processPurchaseAndNotify_Next(call.pc, accepted)
       IN /\ IF accepted
             THEN /\ purchases' = purchases \cup {purchase}
                  /\ admin_notifications' =
                       admin_notifications \cup notify_admin_on_purchase(purchase)
             ELSE UNCHANGED <<purchases, admin_notifications>>
          /\ IF next = "return"
             THEN /\ call' = Idle
                  /\ result' = Fail(call.op, call.args, "insert purchases failed", log)
             ELSE /\ call' = [call EXCEPT !.pc = next, !.log = log,
                                          !.purchase = IF accepted THEN purchase ELSE NoRow]
                  /\ result' = NoResult
  /\ UNCHANGED <<users, authUsers, user_profiles, user_subscriptions, trading_signals,
                 hasPasswordHash, now, planQueries, otherTables, browser>>

\* await this.activateSubscription(...): its { success } is not read
processPurchaseAndNotify_ActivateSubscription ==
  /\ call.op = "processPurchaseAndNotify" /\ call.pc = "activateSubscription"
  /\ \E ok \in BOOLEAN :
       /\ user_subscriptions' =
            IF ok THEN ActivatedSubscriptions(call.args.userId, call.args.planType)
            ELSE user_subscriptions
       /\ call' = [call EXCEPT !.pc = processPurchaseAndNotify_Next(call.pc, ok),
                               !.log = Append(call.log, Ev("update user_subscriptions", ok))]
  /\ result' = NoResult
  /\ UNCHANGED <<users, authUsers, user_profiles, trading_signals, purchases,
                 admin_notifications, hasPasswordHash, now, planQueries, otherTables, browser>>

\* await emailService.sendPaymentSuccessEmail(...): it resolves, or it
\* rejects and the catch returns the failure
processPurchaseAndNotify_SendEmail ==
  /\ call.op = "processPurchaseAndNotify" /\ call.pc = "sendPaymentSuccessEmail"
  /\ \E ok \in BOOLEAN :
       LET log == Append(call.log, Ev("sendPaymentSuccessEmail", ok))
       IN result' = IF ok
                    THEN [op |-> call.op, args |-> call.args, success |-> TRUE,
                          error |-> "", log |-> log, purchase |-> call.purchase]
                    ELSE Fail(call.op, call.args, "sendPaymentSuccessEmail failed", log)
  /\ call' = Idle
  /\ UNCHANGED <<tables, planQueries, otherTables, browser>>

SpecPurchaseNext ==
  \/ \E e \in Emails, t \in PaidPlanTypes : Legacy_signUp_Start(e, "pw1", "salt1", t)
  \/ Legacy_signUp_InsertUser
  \/ Legacy_signUp_InsertProfile
  \/ Legacy_signUp_InsertSubscription
  \/ \E u \in UserIdArgs, t \in PaidPlanTypes : createPurchase_Start(u, t)
  \/ createPurchase_InsertPurchase
  \/ \E u \in UserIdArgs, t \in PaidPlanTypes : activateSubscription_Start(u, t)
  \/ activateSubscription_Update
  \/ \E u \in UserIdArgs, t \in PaidPlanTypes : processPurchaseAndNotify_Start(u, t)
  \/ processPurchaseAndNotify_CreatePurchase
  \/ processPurchaseAndNotify_ActivateSubscription
  \/ processPurchaseAndNotify_SendEmail

SpecPurchase == Init /\ [][SpecPurchaseNext]_vars


\* -------------------------------------------------- tradingSignalService
createSignal_Start(signalType) ==
  /\ call = Idle
  /\ Cardinality(trading_signals) < MaxSignals
  /\ call' = [op |-> "createSignal", pc |-> "insertSignal",
              args |-> [signalType |-> signalType], log |-> <<>>]
  /\ result' = NoResult
  /\ UNCHANGED <<tables, planQueries, otherTables, browser>>

createSignal_InsertSignal ==
  /\ call.op = "createSignal" /\ call.pc = "insertSignal"
  /\ \E ok \in BOOLEAN :
       LET signal == [id |-> FreshId(trading_signals),
                      signal_type |-> call.args.signalType, status |-> "active"]
           log == Append(call.log, Ev("insert trading_signals", ok))
       IN IF ok
          THEN /\ trading_signals' = trading_signals \cup {signal}
               /\ result' = [op |-> call.op, args |-> call.args, success |-> TRUE,
                             error |-> "", log |-> log, signal |-> signal]
          ELSE /\ trading_signals' = trading_signals
               /\ result' = Fail(call.op, call.args, "insert trading_signals failed", log)
  /\ call' = Idle
  /\ UNCHANGED <<users, authUsers, user_profiles, user_subscriptions, purchases,
                 admin_notifications, hasPasswordHash, now, planQueries, otherTables, browser>>

\* faulty variant of the lookup below: status is not filtered
getActiveSignals_AnySubscription(userId) ==
  MaybeSingle({s \in user_subscriptions : s.user_id = userId})

\* the user_subscriptions lookup of getActiveSignals; its error is not read
getActiveSignals_Subscription(userId) ==
  MaybeSingle({s \in user_subscriptions : s.user_id = userId /\ s.status = "active"})

getActiveSignals_Start(userId) ==
  /\ call = Idle
  /\ call' = [op |-> "getActiveSignals",
              pc |-> IF Truthy(userId) THEN "selectSubscription" ELSE "selectSignals",
              args |-> [userId |-> userId], log |-> <<>>]
  /\ result' = NoResult
  /\ UNCHANGED <<tables, planQueries, otherTables, browser>>

getActiveSignals_SelectSubscription ==
  /\ call.op = "getActiveSignals" /\ call.pc = "selectSubscription"
  /\ \E ok \in BOOLEAN :
       LET subscription == IF ok THEN getActiveSignals_Subscription(call.args.userId)
                           ELSE NoRow
           log == Append(call.log, Ev("select user_subscriptions", ok))
       IN IF subscription = NoRow
          THEN /\ call' = Idle
               /\ result' = Fail(call.op, call.args, "No active subscription", log)
          ELSE /\ call' = [call EXCEPT !.pc = "selectSignals", !.log = log]
               /\ result' = NoResult
  /\ UNCHANGED <<tables, planQueries, otherTables, browser>>

getActiveSignals_SelectSignals ==
  /\ call.op = "getActiveSignals" /\ call.pc = "selectSignals"
  /\ \E ok \in BOOLEAN :
       LET log == Append(call.log, Ev("select trading_signals", ok))
       IN result' = IF ok
                    THEN [op |-> call.op, args |-> call.args, success |-> TRUE,
                          error |-> "", log |-> log,
                          signals |-> {g \in trading_signals : g.status = "active"}]
                    ELSE Fail(call.op, call.args, "select trading_signals failed", log)
  /\ call' = Idle
  /\ UNCHANGED <<tables, planQueries, otherTables, browser>>

\* the user_subscriptions lookup of getSignalsByType; its error is not read
getSignalsByType_Subscription(userId) ==
  MaybeSingle({s \in user_subscriptions : s.user_id = userId /\ s.status = "active"})

getSignalsByType_Start(signalType, userId) ==
  /\ call = Idle
  /\ call' = [op |-> "getSignalsByType",
              pc |-> IF Truthy(userId) THEN "selectSubscription" ELSE "selectSignals",
              args |-> [signalType |-> signalType, userId |-> userId], log |-> <<>>]
  /\ result' = NoResult
  /\ UNCHANGED <<tables, planQueries, otherTables, browser>>

getSignalsByType_SelectSubscription ==
  /\ call.op = "getSignalsByType" /\ call.pc = "selectSubscription"
  /\ \E ok \in BOOLEAN :
       LET subscription == IF ok THEN getSignalsByType_Subscription(call.args.userId)
                           ELSE NoRow
           log == Append(call.log, Ev("select user_subscriptions", ok))
       IN IF subscription = NoRow
          THEN /\ call' = Idle
               /\ result' = Fail(call.op, call.args, "No active subscription", log)
          ELSE /\ call' = [call EXCEPT !.pc = "selectSignals", !.log = log]
               /\ result' = NoResult
  /\ UNCHANGED <<tables, planQueries, otherTables, browser>>

getSignalsByType_SelectSignals ==
  /\ call.op = "getSignalsByType" /\ call.pc = "selectSignals"
  /\ \E ok \in BOOLEAN :
       LET log == Append(call.log, Ev("select trading_signals", ok))
       IN result' = IF ok
                    THEN [op |-> call.op, args |-> call.args, success |-> TRUE,
                          error |-> "", log |-> log,
                          signals |-> {g \in trading_signals :
                                         /\ g.signal_type = call.args.signalType
                                         /\ g.status = "active"}]
                    ELSE Fail(call.op, call.args, "select trading_signals failed", log)
  /\ call' = Idle
  /\ UNCHANGED <<tables, planQueries, otherTables, browser>>

\* ------------------------------------- row-level policies, trading_signals
\* faulty variant of the policy below: expires_at is not compared
SubscribedUsersCanReadSignals_NoExpiry(uid) ==
  \E s \in user_subscriptions : s.user_id = uid /\ s.status = "active"

\* "Subscribed users can read signals"
SubscribedUsersCanReadSignals(uid) ==
  \E s \in user_subscriptions :
    /\ s.user_id = uid
    /\ s.status = "active"
    /\ s.expires_at # NoTime
    /\ s.expires_at > now

\* "Admins can manage all signals" (FOR ALL, so SELECT too)
AdminsCanManageAllSignals(uid) ==
  \E u \in users : u.id = uid /\ u.role = "admin"

\* policies are permissive: a row is visible when one of them passes
TradingSignalsSelect(uid) ==
  {g \in trading_signals :
     SubscribedUsersCanReadSignals(uid) \/ AdminsCanManageAllSignals(uid)}

\* SELECT * FROM trading_signals by the authenticated identity uid
RlsSelectSignals(uid) ==
  /\ call = Idle
  /\ uid \in UserIdsInUse
  /\ result' = [op |-> "select trading_signals", uid |-> uid,
                rows |-> TradingSignalsSelect(uid)]
  /\ UNCHANGED <<tables, call, planQueries, otherTables, browser>>

\* now() of the database moves on by some days
Tick(days) ==
  /\ call = Idle
  /\ now + days <= MaxTime
  /\ now' = now + days
  /\ result' = NoResult
  /\ UNCHANGED <<users, authUsers, user_profiles, user_subscriptions, trading_signals,
                 purchases, admin_notifications, hasPasswordHash, call, planQueries, otherTables, browser>>

SpecSignalsNext ==
  \/ \E e \in Emails : Legacy_signUp_Start(e, "pw1", "salt1", "starter")
  \/ Legacy_signUp_InsertUser
  \/ Legacy_signUp_InsertProfile
  \/ Legacy_signUp_InsertSubscription
  \/ \E u \in 1..MaxUsers : activateSubscription_Start(u, "starter")
  \/ activateSubscription_Update
  \/ \E t \in SignalTypes : createSignal_Start(t)
  \/ createSignal_InsertSignal
  \/ \E u \in UserIdArgs : getActiveSignals_Start(u)
  \/ getActiveSignals_SelectSubscription
  \/ getActiveSignals_SelectSignals
  \/ \E t \in SignalTypes, u \in UserIdArgs : getSignalsByType_Start(t, u)
  \/ getSignalsByType_SelectSubscription
  \/ getSignalsByType_SelectSignals
  \/ \E u \in 1..MaxUsers : RlsSelectSignals(u)
  \/ \E u \in 1..MaxUsers : UsersCanUpdateOwnData(u, "promote")
  \/ Tick(31)

SpecSignals == Init /\ [][SpecSignalsNext]_vars

\* ------------------------------------------ getPlanDetails, called alone
MaxPlanQueries == 2

PlanTypeInputs ==
  {"kickstarter", "starter", "pro", "enterprise",
   "gold", "", "Starter", "constructor", "toString", "__proto__"}

Legacy_getPlanDetails_Call(planType) ==
  /\ Len(planQueries) < MaxPlanQueries
  /\ planQueries' = Append(planQueries,
       [service |-> "legacy authService", planType |-> planType,
        plan |-> Legacy_getPlanDetails(planType)])
  /\ UNCHANGED <<tables, call, result, otherTables, browser>>

Purchase_getPlanDetails_Call(planType) ==
  /\ Len(planQueries) < MaxPlanQueries
  /\ planQueries' = Append(planQueries,
       [service |-> "purchaseService", planType |-> planType,
        plan |-> Purchase_getPlanDetails(planType)])
  /\ UNCHANGED <<tables, call, result, otherTables, browser>>

Provider_getPlanDetails_Call(planType) ==
  /\ Len(planQueries) < MaxPlanQueries
  /\ planQueries' = Append(planQueries,
       [service |-> "authService", planType |-> planType,
        plan |-> Provider_getPlanDetails(planType)])
  /\ UNCHANGED <<tables, call, result, otherTables, browser>>

SpecPlanNext ==
  \/ \E t \in PlanTypeInputs : Legacy_getPlanDetails_Call(t)
  \/ \E t \in PlanTypeInputs : Purchase_getPlanDetails_Call(t)
  \/ \E t \in PlanTypeInputs : Provider_getPlanDetails_Call(t)

SpecPlan == Init /\ [][SpecPlanNext]_vars

\* ------------------------------------------ tradingSignalService, views
\* faulty variant of the constraint below: the table has no UNIQUE constraint
SignalViewed_NoUnique(userId, signalId) == FALSE

\* user_signal_access: UNIQUE(user_id, signal_id)
SignalViewed(userId, signalId) ==
  \E a \in user_signal_access : a.user_id = userId /\ a.signal_id = signalId

trackSignalView_Start(userId, signalId) ==
  /\ call = Idle
  /\ call' = [op |-> "trackSignalView", pc |-> "insertAccess",
              args |-> [userId |-> userId, signalId |-> signalId], log |-> <<>>]
  /\ result' = NoResult
  /\ UNCHANGED <<tables, planQueries, otherTables, browser>>

\* the insert answers with no error, with a 'duplicate key' error (the row
\* exists already) or with another error; only the last is thrown
trackSignalView_InsertAccess ==
  /\ call.op = "trackSignalView" /\ call.pc = "insertAccess"
  /\ \E ok \in BOOLEAN :
       LET duplicate == SignalViewed(call.args.userId, call.args.signalId)
           accepted == /\ ok
                       /\ ~duplicate
                       /\ UserExists(call.args.userId)
                       /\ \E g \in trading_signals : g.id = call.args.signalId
           log == Append(call.log, Ev("insert user_signal_access", accepted))
       IN /\ user_signal_access' =
               IF accepted
               THEN user_signal_access \cup
                      {[id |-> FreshId(user_signal_access), user_id |-> call.args.userId,
                        signal_id |-> call.args.signalId, viewed_at |-> now]}
               ELSE user_signal_access
          /\ result' = IF accepted \/ (ok /\ duplicate)
                       THEN [op |-> call.op, args |-> call.args, success |-> TRUE,
                             error |-> "", log |-> log]
                       ELSE Fail(call.op, call.args, "insert user_signal_access failed", log)
  /\ call' = Idle
  /\ UNCHANGED <<tables, planQueries, mt5_accounts, mt5_trades, mt5_performance,
                 email_logs, browser>>

\* --------------------------------------------- row-level policies, SELECT
\* every policy of the migration is TO authenticated: auth.uid() is 0 for
\* the anon role, which no policy admits
Authenticated(uid) == uid # 0

\* EXISTS (SELECT 1 FROM users WHERE users.id = auth.uid() AND users.role = 'admin')
RoleIsAdmin(uid) == \E u \in users : u.id = uid /\ u.role = "admin"

UsersCanReadOwnData(uid, row) == uid = row.id

UsersCanReadOwnProfile(uid, row) == row.user_id = uid

UsersCanReadOwnSubscriptions(uid, row) == row.user_id = uid

AdminsCanReadAllSubscriptions(uid, row) == RoleIsAdmin(uid)

UsersCanReadOwnSignalAccess(uid, row) == row.user_id = uid

UsersCanReadOwnMT5Accounts(uid, row) == row.user_id = uid

\* FOR ALL: its USING admits a SELECT as well
UsersCanManageOwnMT5Accounts(uid, row) == row.user_id = uid

UsersCanReadOwnMT5Trades(uid, row) == row.user_id = uid

\* FOR ALL: its USING admits a SELECT as well
UsersCanManageOwnMT5Trades(uid, row) == row.user_id = uid

UsersCanReadOwnMT5Performance(uid, row) == row.user_id = uid

UsersCanReadOwnPurchases(uid, row) == row.user_id = uid

\* faulty variant of the policy below: the role is not compared
AdminsCanReadAllPurchases_AnyRole(uid, row) == \E u \in users : u.id = uid

AdminsCanReadAllPurchases(uid, row) == RoleIsAdmin(uid)

\* faulty variant of the policy below: the role is not compared
AdminsCanReadAllNotifications_AnyRole(uid, row) == \E u \in users : u.id = uid

AdminsCanReadAllNotifications(uid, row) == RoleIsAdmin(uid)

AdminsCanUpdateNotifications(uid, row) == RoleIsAdmin(uid)

AdminsCanReadAllEmailLogs(uid, row) == RoleIsAdmin(uid)

TableNames ==
  {"users", "user_profiles", "user_subscriptions", "user_signal_access",
   "mt5_accounts", "mt5_trades", "mt5_performance", "purchases",
   "admin_notifications", "email_logs"}

Table(t) ==
  CASE t = "users" -> users
    [] t = "user_profiles" -> user_profiles
    [] t = "user_subscriptions" -> user_subscriptions
    [] t = "user_signal_access" -> user_signal_access
    [] t = "mt5_accounts" -> mt5_accounts
    [] t = "mt5_trades" -> mt5_trades
    [] t = "mt5_performance" -> mt5_performance
    [] t = "purchases" -> purchases
    [] t = "admin_notifications" -> admin_notifications
    [] t = "email_logs" -> email_logs

\* the permissive SELECT policies of a table, OR-ed
SelectPolicy(t, uid, row) ==
  CASE t = "users" -> UsersCanReadOwnData(uid, row)
    [] t = "user_profiles" -> UsersCanReadOwnProfile(uid, row)
    [] t = "user_subscriptions" ->
         UsersCanReadOwnSubscriptions(uid, row) \/ AdminsCanReadAllSubscriptions(uid, row)
    [] t = "user_signal_access" -> UsersCanReadOwnSignalAccess(uid, row)
    [] t = "mt5_accounts" ->
         UsersCanReadOwnMT5Accounts(uid, row) \/ UsersCanManageOwnMT5Accounts(uid, row)
    [] t = "mt5_trades" ->
         UsersCanReadOwnMT5Trades(uid, row) \/ UsersCanManageOwnMT5Trades(uid, row)
    [] t = "mt5_performance" -> UsersCanReadOwnMT5Performance(uid, row)
    [] t = "purchases" ->
         UsersCanReadOwnPurchases(uid, row) \/ AdminsCanReadAllPurchases(uid, row)
    [] t = "admin_notifications" -> AdminsCanReadAllNotifications(uid, row)
    [] t = "email_logs" -> AdminsCanReadAllEmailLogs(uid, row)

\* the permissive policies of a table that apply to INSERT (FOR INSERT and
\* FOR ALL), OR-ed, on the new row; a table with none admits no insert
InsertPolicy(t, uid, row) ==
  /\ Authenticated(uid)
  /\ CASE t = "user_profiles" -> row.user_id = uid
       [] t = "trading_signals" -> RoleIsAdmin(uid)
       [] t = "user_signal_access" -> row.user_id = uid
       [] t = "mt5_accounts" -> UsersCanManageOwnMT5Accounts(uid, row)
       [] t = "mt5_trades" -> UsersCanManageOwnMT5Trades(uid, row)
       [] OTHER -> FALSE

\* the permissive policies of a table that apply to UPDATE (FOR UPDATE and
\* FOR ALL), OR-ed, on the row as it is; a table with none admits no update
UpdatePolicy(t, uid, row) ==
  /\ Authenticated(uid)
  /\ CASE t = "users" -> uid = row.id
       [] t = "user_profiles" -> row.user_id = uid
       [] t = "trading_signals" -> RoleIsAdmin(uid)
       [] t = "mt5_accounts" -> UsersCanManageOwnMT5Accounts(uid, row)
       [] t = "mt5_trades" -> UsersCanManageOwnMT5Trades(uid, row)
       [] t = "admin_notifications" -> AdminsCanUpdateNotifications(uid, row)
       [] OTHER -> FALSE

\* the rows of table t a SELECT by the identity uid returns
VisibleRows(t, uid) ==
  {row \in Table(t) : Authenticated(uid) /\ SelectPolicy(t, uid, row)}

\* SELECT * FROM t by the identity uid (0: the anon role)
RlsSelect(t, uid) ==
  /\ call = Idle
  /\ uid \in {0} \cup UserIdsInUse
  /\ result' = [op |-> "select", table |-> t, uid |-> uid, rows |-> VisibleRows(t, uid)]
  /\ UNCHANGED <<tables, call, planQueries, otherTables, browser>>

\* --------------------------------------- rows of the tables no service writes
\* the rows of every table but users, user_profiles, user_subscriptions and
\* admin_notifications
OtherRows ==
  Cardinality(mt5_accounts) + Cardinality(mt5_trades)
    + Cardinality(mt5_performance) + Cardinality(email_logs)
    + Cardinality(purchases) + Cardinality(trading_signals)
    + Cardinality(user_signal_access)

\* WITH CHECK of "Users can manage own MT5 accounts" / "... MT5 trades"
ManageOwnCheck(uid, row) == Authenticated(uid) /\ row.user_id = uid

\* INSERT INTO mt5_accounts by the identity uid, for the user owner
InsertMT5Account(uid, owner) ==
  /\ call = Idle
  /\ uid \in UserIdsInUse
  /\ UserExists(owner)
  /\ LET row == [id |-> FreshId(mt5_accounts), user_id |-> owner]
     IN /\ ManageOwnCheck(uid, row)
        /\ mt5_accounts' = mt5_accounts \cup {row}
  /\ result' = NoResult
  /\ UNCHANGED <<tables, call, planQueries, user_signal_access, mt5_trades,
                 mt5_performance, email_logs, browser>>

\* INSERT INTO mt5_trades by the identity uid, for the user owner
InsertMT5Trade(uid, owner) ==
  /\ call = Idle
  /\ uid \in UserIdsInUse
  /\ UserExists(owner)
  /\ LET row == [id |-> FreshId(mt5_trades), user_id |-> owner]
     IN /\ ManageOwnCheck(uid, row)
        /\ mt5_trades' = mt5_trades \cup {row}
  /\ result' = NoResult
  /\ UNCHANGED <<tables, call, planQueries, user_signal_access, mt5_accounts,
                 mt5_performance, email_logs, browser>>

\* mt5_performance and email_logs have no INSERT policy: their rows come
\* from the service role, which row-level security does not bind
ServiceRoleInsert(t, owner) ==
  /\ call = Idle
  /\ UserExists(owner)
  /\ t \in {"mt5_performance", "email_logs"}
  /\ mt5_performance' =
       IF t = "mt5_performance"
       THEN mt5_performance \cup {[id |-> FreshId(mt5_performance), user_id |-> owner]}
       ELSE mt5_performance
  /\ email_logs' =
       IF t = "email_logs"
       THEN email_logs \cup {[id |-> FreshId(email_logs), user_id |-> owner]}
       ELSE email_logs
  /\ result' = NoResult
  /\ UNCHANGED <<tables, call, planQueries, user_signal_access, mt5_accounts,
                 mt5_trades, browser>>

SpecRlsNext ==
  \/ \E e \in Emails : Legacy_signUp_Start(e, "pw1", "salt1", "starter")
  \/ Legacy_signUp_InsertUser
  \/ Legacy_signUp_InsertProfile
  \/ Legacy_signUp_InsertSubscription
  \/ \E u \in 1..MaxUsers :
       OtherRows < MaxOtherRows /\ createPurchase_Start(u, "starter")
  \/ createPurchase_InsertPurchase
  \/ OtherRows < MaxOtherRows /\ createSignal_Start("crypto")
  \/ createSignal_InsertSignal
  \/ \E u \in 1..MaxUsers, g \in 1..MaxSignals :
       OtherRows < MaxOtherRows /\ trackSignalView_Start(u, g)
  \/ trackSignalView_InsertAccess
  \/ \E u \in 1..MaxUsers, o \in 1..MaxUsers :
       OtherRows < MaxOtherRows /\ InsertMT5Account(u, o)
  \/ \E u \in 1..MaxUsers, o \in 1..MaxUsers :
       OtherRows < MaxOtherRows /\ InsertMT5Trade(u, o)
  \/ \E t \in {"mt5_performance", "email_logs"}, o \in 1..MaxUsers :
       OtherRows < MaxOtherRows /\ ServiceRoleInsert(t, o)
  \/ \E u \in 1..MaxUsers : UsersCanUpdateOwnData(u, "promote")
  \/ \E t \in TableNames, u \in 0..MaxUsers : RlsSelect(t, u)

SpecRls == Init /\ [][SpecRlsNext]_vars

\* ------------------------------------------------- the client's session
\* supabase.auth keeps one session; auth.uid() of every request is its user,
\* 0 while nobody is signed in
SessionChange(uid) ==
  /\ call = Idle
  /\ uid \in {0} \cup UserIdsInUse
  /\ uid # session
  /\ session' = uid
  /\ result' = NoResult
  /\ UNCHANGED <<tables, call, planQueries, otherTables, component, router>>

\* --------------------------------- purchaseService, admin notifications
RECURSIVE Orderings(_)
\* the sequences that list every element of rows once
Orderings(rows) ==
  IF rows = {} THEN {<<>>}
  ELSE UNION {{<<row>> \o rest : rest \in Orderings(rows \ {row})} : row \in rows}

\* faulty variant of the ordering below: ascending
OrderByCreatedAtAscending(rows) ==
  {list \in Orderings(rows) :
     \A i \in 1..(Len(list) - 1) : list[i].created_at <= list[i + 1].created_at}

\* .order('created_at', { ascending: false }): rows of one created_at come
\* in any order
OrderByCreatedAtDescending(rows) ==
  {list \in Orderings(rows) :
     \A i \in 1..(Len(list) - 1) : list[i].created_at >= list[i + 1].created_at}

\* faulty variant of the filter below: the condition is not negated
getAdminNotifications_FilterInverted(includeRead, rows) ==
  IF includeRead THEN {n \in rows : ~n.is_read} ELSE rows

\* if (!includeRead) query = query.eq('is_read', false)
getAdminNotifications_Filter(includeRead, rows) ==
  IF ~includeRead THEN {n \in rows : ~n.is_read} ELSE rows

\* the lists the query may answer the identity uid with
getAdminNotifications_Query(includeRead, uid) ==
  OrderByCreatedAtDescending(
    getAdminNotifications_Filter(includeRead, VisibleRows("admin_notifications", uid)))

getAdminNotifications_Start(includeRead) ==
  /\ call = Idle
  /\ call' = [op |-> "getAdminNotifications", pc |-> "select",
              args |-> [includeRead |-> includeRead], uid |-> session, log |-> <<>>]
  /\ result' = NoResult
  /\ UNCHANGED <<tables, planQueries, otherTables, browser>>

getAdminNotifications_Select ==
  /\ call.op = "getAdminNotifications" /\ call.pc = "select"
  /\ \E ok \in BOOLEAN :
       LET log == Append(call.log, Ev("select admin_notifications", ok))
       IN IF ok
          THEN \E list \in getAdminNotifications_Query(call.args.includeRead, call.uid) :
                 result' = [op |-> call.op, args |-> call.args, uid |-> call.uid,
                            success |-> TRUE, error |-> "", log |-> log,
                            notifications |-> list]
          ELSE result' = [op |-> call.op, args |-> call.args, uid |-> call.uid,
                          success |-> FALSE, error |-> "select admin_notifications failed",
                          log |-> log]
  /\ call' = Idle
  /\ UNCHANGED <<tables, planQueries, otherTables, browser>>

\* faulty variant of the update below: .eq('id', notificationId) is missing
markNotificationAsRead_UpdateAll(notificationId, uid) ==
  {IF Authenticated(uid) /\ AdminsCanUpdateNotifications(uid, n)
   THEN [n EXCEPT !.is_read = TRUE]
   ELSE n : n \in admin_notifications}

\* .update({ is_read: true }).eq('id', notificationId), on the rows the
\* UPDATE policy lets the identity uid change
markNotificationAsRead_Update(notificationId, uid) ==
  {IF n.id = notificationId /\ Authenticated(uid) /\ AdminsCanUpdateNotifications(uid, n)
   THEN [n EXCEPT !.is_read = TRUE]
   ELSE n : n \in admin_notifications}

markNotificationAsRead_Start(notificationId) ==
  /\ call = Idle
  /\ call' = [op |-> "markNotificationAsRead", pc |-> "update",
              args |-> [notificationId |-> notificationId], uid |-> session, log |-> <<>>]
  /\ result' = NoResult
  /\ UNCHANGED <<tables, planQueries, otherTables, browser>>

markNotificationAsRead_UpdateRow ==
  /\ call.op = "markNotificationAsRead" /\ call.pc = "update"
  /\ \E ok \in BOOLEAN :
       LET log == Append(call.log, Ev("update admin_notifications", ok))
       IN /\ admin_notifications' =
               IF ok THEN markNotificationAsRead_Update(call.args.notificationId, call.uid)
               ELSE admin_notifications
          /\ result' = [op |-> call.op, args |-> call.args, uid |-> call.uid,
                        success |-> ok,
                        error |-> IF ok THEN "" ELSE "update admin_notifications failed",
                        log |-> log]
  /\ call' = Idle
  /\ UNCHANGED <<users, authUsers, user_profiles, user_subscriptions, trading_signals,
                 purchases, hasPasswordHash, now, planQueries, otherTables, browser>>

\* UPDATE admin_notifications SET is_read = isRead WHERE id = notificationId,
\* sent to the database by the identity uid without the service
RlsUpdateNotification(uid, notificationId, isRead) ==
  /\ call = Idle
  /\ uid \in {0} \cup UserIdsInUse
  /\ LET changed == {n \in admin_notifications :
                       /\ n.id = notificationId
                       /\ Authenticated(uid)
                       /\ AdminsCanUpdateNotifications(uid, n)}
     IN /\ admin_notifications' =
             (admin_notifications \ changed)
               \cup {[n EXCEPT !.is_read = isRead] : n \in changed}
        /\ result' = [op |-> "update", table |-> "admin_notifications", uid |-> uid,
                      rows |-> changed]
  /\ UNCHANGED <<users, authUsers, user_profiles, user_subscriptions, trading_signals,
                 purchases, hasPasswordHash, now, call, planQueries, otherTables, browser>>

SpecNotificationsNext ==
  \/ \E e \in Emails : Legacy_signUp_Start(e, "pw1", "salt1", "starter")
  \/ Legacy_signUp_InsertUser
  \/ Legacy_signUp_InsertProfile
  \/ Legacy_signUp_InsertSubscription
  \/ createPurchase_Start(1, "starter")
  \/ createPurchase_InsertPurchase
  \/ \E u \in 1..MaxUsers : UsersCanUpdateOwnData(u, "promote")
  \/ \E u \in 0..MaxUsers : SessionChange(u)
  \/ \E b \in BOOLEAN : getAdminNotifications_Start(b)
  \/ getAdminNotifications_Select
  \/ \E n \in 1..MaxPurchases : markNotificationAsRead_Start(n)
  \/ markNotificationAsRead_UpdateRow
  \/ Cardinality(email_logs) < MaxOtherRows /\ ServiceRoleInsert("email_logs", 1)
  \/ \E t \in {"admin_notifications", "email_logs"}, u \in 0..MaxUsers : RlsSelect(t, u)
  \/ \E u \in 0..MaxUsers, n \in 1..MaxPurchases, b \in BOOLEAN :
       RlsUpdateNotification(u, n, b)

SpecNotifications == Init /\ [][SpecNotificationsNext]_vars

\* the notification services called from one account's browser, the clock
\* moving between the purchases
SpecNotificationListNext ==
  \/ Legacy_signUp_Start("a@x.io", "pw1", "salt1", "starter")
  \/ Legacy_signUp_InsertUser
  \/ Legacy_signUp_InsertProfile
  \/ Legacy_signUp_InsertSubscription
  \/ \E u \in 1..MaxUsers : createPurchase_Start(u, "starter")
  \/ createPurchase_InsertPurchase
  \/ \E u \in 1..MaxUsers : UsersCanUpdateOwnData(u, "promote")
  \/ \E u \in 0..MaxUsers : SessionChange(u)
  \/ \E b \in BOOLEAN : getAdminNotifications_Start(b)
  \/ getAdminNotifications_Select
  \/ \E n \in 1..MaxPurchases : markNotificationAsRead_Start(n)
  \/ markNotificationAsRead_UpdateRow
  \/ Tick(31)

SpecNotificationList == Init /\ [][SpecNotificationListNext]_vars

\* ------------------------------------------------------------ App routes
\* faulty variant of the table below: /admin/dashboard has lost its wrapper
Routes_AdminDashboardUnwrapped ==
  {[path |-> "/", gate |-> "none", component |-> "LandingPage"],
   [path |-> "/classic", gate |-> "none", component |-> "LandingPage"],
   [path |-> "/signup", gate |-> "none", component |-> "SignUp"],
   [path |-> "/signin", gate |-> "none", component |-> "SignIn"],
   [path |-> "/membership", gate |-> "none", component |-> "MembershipPlans"],
   [path |-> "/payment-flow", gate |-> "ProtectedRoute", component |-> "PaymentFlow"],
   [path |-> "/successful-payment", gate |-> "none", component |-> "SuccessfulPaymentPage"],
   [path |-> "/questionnaire", gate |-> "none", component |-> "Questionnaire"],
   [path |-> "/risk-management", gate |-> "none", component |-> "RiskManagementPage"],
   [path |-> "/risk-management-plan", gate |-> "none", component |-> "RiskManagementPlan"],
   [path |-> "/comprehensive-risk-plan", gate |-> "none", component |-> "ComprehensiveRiskPlan"],
   [path |-> "/upload-screenshot", gate |-> "none", component |-> "UploadScreenshot"],
   [path |-> "/setup/prop-firm", gate |-> "none", component |-> "PropFirmSelection"],
   [path |-> "/setup/account", gate |-> "none", component |-> "AccountConfiguration"],
   [path |-> "/setup/risk", gate |-> "none", component |-> "RiskConfiguration"],
   [path |-> "/setup/plan", gate |-> "none", component |-> "TradingPlanGeneration"],
   [path |-> "/dashboard/:tab", gate |-> "ProtectedRoute", component |-> "Dashboard"],
   [path |-> "/dashboard", gate |-> "ProtectedRoute", component |-> "Dashboard"],
   [path |-> "/admin", gate |-> "none", component |-> "AdminMpinLogin"],
   [path |-> "/admin/dashboard", gate |-> "none", component |-> "AdminDashboard"],
   [path |-> "/database", gate |-> "none", component |-> "DatabaseDashboard"],
   [path |-> "/affiliate-links", gate |-> "none", component |-> "AffiliateLinks"],
   [path |-> "/features", gate |-> "none", component |-> "Features"],
   [path |-> "/about", gate |-> "none", component |-> "About"],
   [path |-> "/terms", gate |-> "none", component |-> "Terms"],
   [path |-> "/terms-of-service", gate |-> "none", component |-> "TermsOfService"],
   [path |-> "/privacy-policy", gate |-> "none", component |-> "PrivacyPolicy"],
   [path |-> "/faq", gate |-> "none", component |-> "FAQ"],
   [path |-> "/contact-support", gate |-> "none", component |-> "ContactSupport"],
   [path |-> "/payment", gate |-> "none", component |-> "PaymentFlow"],
   [path |-> "/trade-mentor/:tradeId", gate |-> "none", component |-> "TradeMentor"],
   [path |-> "/customer-service", gate |-> "none", component |-> "CustomerServiceMpinLogin"],
   [path |-> "/customer-service/dashboard", gate |-> "CustomerServiceProtectedRoute", component |-> "EnhancedCustomerServiceDashboard"],
   [path |-> "/customer-service/customer/:id", gate |-> "CustomerServiceProtectedRoute", component |-> "CustomerDetail"],
   [path |-> "/ai-coach", gate |-> "ProtectedRoute", component |-> "AICoach"],
   [path |-> "/lightning", gate |-> "none", component |-> "LandingPage"],
   [path |-> "/animation-test", gate |-> "none", component |-> "AnimationTest"]}

\* <Routes>: the path, the gate its element is nested in ("none" when it is
\* nested in none) and the page the element renders
Routes ==
  {[path |-> "/", gate |-> "none", component |-> "LandingPage"],
   [path |-> "/classic", gate |-> "none", component |-> "LandingPage"],
   [path |-> "/signup", gate |-> "none", component |-> "SignUp"],
   [path |-> "/signin", gate |-> "none", component |-> "SignIn"],
   [path |-> "/membership", gate |-> "none", component |-> "MembershipPlans"],
   [path |-> "/payment-flow", gate |-> "ProtectedRoute", component |-> "PaymentFlow"],
   [path |-> "/successful-payment", gate |-> "none", component |-> "SuccessfulPaymentPage"],
   [path |-> "/questionnaire", gate |-> "none", component |-> "Questionnaire"],
   [path |-> "/risk-management", gate |-> "none", component |-> "RiskManagementPage"],
   [path |-> "/risk-management-plan", gate |-> "none", component |-> "RiskManagementPlan"],
   [path |-> "/comprehensive-risk-plan", gate |-> "none", component |-> "ComprehensiveRiskPlan"],
   [path |-> "/upload-screenshot", gate |-> "none", component |-> "UploadScreenshot"],
   [path |-> "/setup/prop-firm", gate |-> "none", component |-> "PropFirmSelection"],
   [path |-> "/setup/account", gate |-> "none", component |-> "AccountConfiguration"],
   [path |-> "/setup/risk", gate |-> "none", component |-> "RiskConfiguration"],
   [path |-> "/setup/plan", gate |-> "none", component |-> "TradingPlanGeneration"],
   [path |-> "/dashboard/:tab", gate |-> "ProtectedRoute", component |-> "Dashboard"],
   [path |-> "/dashboard", gate |-> "ProtectedRoute", component |-> "Dashboard"],
   [path |-> "/admin", gate |-> "none", component |-> "AdminMpinLogin"],
   [path |-> "/admin/dashboard", gate |-> "AdminProtectedRoute", component |-> "AdminDashboard"],
   [path |-> "/database", gate |-> "none", component |-> "DatabaseDashboard"],
   [path |-> "/affiliate-links", gate |-> "none", component |-> "AffiliateLinks"],
   [path |-> "/features", gate |-> "none", component |-> "Features"],
   [path |-> "/about", gate |-> "none", component |-> "About"],
   [path |-> "/terms", gate |-> "none", component |-> "Terms"],
   [path |-> "/terms-of-service", gate |-> "none", component |-> "TermsOfService"],
   [path |-> "/privacy-policy", gate |-> "none", component |-> "PrivacyPolicy"],
   [path |-> "/faq", gate |-> "none", component |-> "FAQ"],
   [path |-> "/contact-support", gate |-> "none", component |-> "ContactSupport"],
   [path |-> "/payment", gate |-> "none", component |-> "PaymentFlow"],
   [path |-> "/trade-mentor/:tradeId", gate |-> "none", component |-> "TradeMentor"],
   [path |-> "/customer-service", gate |-> "none", component |-> "CustomerServiceMpinLogin"],
   [path |-> "/customer-service/dashboard", gate |-> "CustomerServiceProtectedRoute", component |-> "EnhancedCustomerServiceDashboard"],
   [path |-> "/customer-service/customer/:id", gate |-> "CustomerServiceProtectedRoute", component |-> "CustomerDetail"],
   [path |-> "/ai-coach", gate |-> "ProtectedRoute", component |-> "AICoach"],
   [path |-> "/lightning", gate |-> "none", component |-> "LandingPage"],
   [path |-> "/animation-test", gate |-> "none", component |-> "AnimationTest"]}

Paths == {r.path : r \in Routes}

\* ProtectedRoute, AdminProtectedRoute, CustomerServiceProtectedRoute: a
\* boolean read from context decides whether the children are rendered
GateOpen(gate) ==
  CASE gate = "none" -> TRUE
    [] gate = "ProtectedRoute" -> gates.user
    [] gate = "AdminProtectedRoute" -> gates.admin
    [] gate = "CustomerServiceProtectedRoute" -> gates.customerService

\* the pages on screen: the page of each route the location matches whose
\* gate is open
Rendered ==
  {r.component : r \in {r \in Routes : r.path = location /\ GateOpen(r.gate)}}

\* navigate(path), a link or a typed URL
Navigate(path) ==
  /\ path \in Paths
  /\ path # location
  /\ location' = path
  /\ UNCHANGED <<tables, call, result, planQueries, otherTables, session, component, gates>>

\* a context's login succeeds
Login(who) ==
  /\ ~gates[who]
  /\ gates' = [gates EXCEPT ![who] = TRUE]
  /\ UNCHANGED <<tables, call, result, planQueries, otherTables, session, component, location>>

\* handleLogout: userLogout(), then window.location.href = '/signin'
handleLogout ==
  /\ "Dashboard" \in Rendered
  /\ gates' = [gates EXCEPT !.user = FALSE]
  /\ location' = "/signin"
  /\ UNCHANGED <<tables, call, result, planQueries, otherTables, session, component>>

\* handleAdminLogout: adminLogout(), then navigate('/admin')
handleAdminLogout ==
  /\ "AdminDashboard" \in Rendered
  /\ gates' = [gates EXCEPT !.admin = FALSE]
  /\ location' = "/admin"
  /\ UNCHANGED <<tables, call, result, planQueries, otherTables, session, component>>

\* a context logs out, or loses its stored login, on any page
Logout(who) ==
  /\ gates[who]
  /\ gates' = [gates EXCEPT ![who] = FALSE]
  /\ UNCHANGED <<tables, call, result, planQueries, otherTables, session, component, location>>

SpecRoutesNext ==
  \/ \E path \in Paths : Navigate(path)
  \/ \E who \in {"user", "admin", "customerService"} : Login(who)
  \/ handleLogout
  \/ handleAdminLogout
  \/ \E who \in {"user", "admin", "customerService"} : Logout(who)

SpecRoutes == Init /\ [][SpecRoutesNext]_vars

\* ------------------------------------------ AdminPurchaseNotifications
\* the calls in flight sit in slots; a new call takes the first free one
FreeSlots == {k \in DOMAIN fetches : fetches[k] = Free}

FirstFreeSlot == CHOOSE k \in FreeSlots : \A j \in FreeSlots : k <= j

\* faulty variant of the count below: the filter is missing
UnreadCount_All(list) == Len(list)

\* result.notifications.filter(n => !n.is_read).length
UnreadCount(list) == Cardinality({i \in 1..Len(list) : ~list[i].is_read})

\* the argument fetchNotifications passes: getAdminNotifications(!showAll)
fetchNotifications_IncludeRead(closureShowAll) == ~closureShowAll

\* fetchNotifications up to its await, run by a closure that saw closureShowAll
fetchNotifications_Call(closureShowAll) ==
  [op |-> "fetchNotifications", showAll |-> closureShowAll]

\* useEffect on mount: fetchNotifications(), setInterval(fetchNotifications)
useEffect_Mount ==
  /\ ~mounted
  /\ mounted' = TRUE
  /\ isLoading' = TRUE
  /\ fetches' = [fetches EXCEPT ![FirstFreeSlot] = fetchNotifications_Call(showAll)]
  /\ result' = NoResult
  /\ UNCHANGED <<tables, call, planQueries, otherTables, session, router,
                 notifications, unreadCount, showAll>>

\* the 30 s interval fires: the fetchNotifications of the last effect runs
setInterval_Fire ==
  /\ mounted
  /\ FreeSlots # {}
  /\ isLoading' = TRUE
  /\ fetches' = [fetches EXCEPT ![FirstFreeSlot] = fetchNotifications_Call(showAll)]
  /\ result' = NoResult
  /\ UNCHANGED <<tables, call, planQueries, otherTables, session, router,
                 notifications, unreadCount, showAll, mounted>>

\* the toggle: setShowAll(!showAll); the effect depends on showAll and runs
\* again after the render, calling the new fetchNotifications
onClick_Toggle ==
  /\ mounted
  /\ FreeSlots # {}
  /\ showAll' = ~showAll
  /\ isLoading' = TRUE
  /\ fetches' = [fetches EXCEPT ![FirstFreeSlot] = fetchNotifications_Call(showAll')]
  /\ result' = NoResult
  /\ UNCHANGED <<tables, call, planQueries, otherTables, session, router,
                 notifications, unreadCount, mounted>>

\* faulty variant of the step below: setIsLoading(false) is inside the if
fetchNotifications_Resolve_StillLoading(k) ==
  /\ fetches[k].op = "fetchNotifications"
  /\ \E ok \in BOOLEAN :
       LET includeRead == fetchNotifications_IncludeRead(fetches[k].showAll)
       IN IF ok
          THEN \E list \in getAdminNotifications_Query(includeRead, session) :
                 /\ notifications' = list
                 /\ unreadCount' = UnreadCount(list)
                 /\ isLoading' = FALSE
                 /\ result' = [op |-> "fetchNotifications", showAll |-> fetches[k].showAll,
                               success |-> TRUE, notifications |-> list]
          ELSE /\ UNCHANGED <<notifications, unreadCount, isLoading>>
               /\ result' = [op |-> "fetchNotifications", showAll |-> fetches[k].showAll,
                             success |-> FALSE]
  /\ fetches' = [fetches EXCEPT ![k] = Free]
  /\ UNCHANGED <<tables, call, planQueries, otherTables, session, router, showAll, mounted>>

\* the await of fetchNotifications resolves, and the rest of it runs
fetchNotifications_Resolve(k) ==
  /\ fetches[k].op = "fetchNotifications"
  /\ \E ok \in BOOLEAN :
       LET includeRead == fetchNotifications_IncludeRead(fetches[k].showAll)
       IN IF ok
          THEN \E list \in getAdminNotifications_Query(includeRead, session) :
                 /\ notifications' = list
                 /\ unreadCount' = UnreadCount(list)
                 /\ result' = [op |-> "fetchNotifications", showAll |-> fetches[k].showAll,
                               success |-> TRUE, notifications |-> list]
          ELSE /\ UNCHANGED <<notifications, unreadCount>>
               /\ result' = [op |-> "fetchNotifications", showAll |-> fetches[k].showAll,
                             success |-> FALSE]
  /\ isLoading' = FALSE
  /\ fetches' = [fetches EXCEPT ![k] = Free]
  /\ UNCHANGED <<tables, call, planQueries, otherTables, session, router, showAll, mounted>>

\* the check-mark button of a listed, unread notification: handleMarkAsRead
\* up to its await. The list is on screen only while isLoading is false.
handleMarkAsRead_Call(notificationId) ==
  /\ mounted
  /\ ~isLoading
  /\ FreeSlots # {}
  /\ \E i \in 1..Len(notifications) :
       notifications[i].id = notificationId /\ ~notifications[i].is_read
  /\ fetches' = [fetches EXCEPT ![FirstFreeSlot] =
                   [op |-> "handleMarkAsRead", notificationId |-> notificationId,
                    showAll |-> showAll]]
  /\ result' = NoResult
  /\ UNCHANGED <<tables, call, planQueries, otherTables, session, router,
                 notifications, unreadCount, isLoading, showAll, mounted>>

\* the await of handleMarkAsRead resolves (its value is not read) and the
\* fetchNotifications of the render the button belonged to is called
handleMarkAsRead_Resolve(k) ==
  /\ fetches[k].op = "handleMarkAsRead"
  /\ \E ok \in BOOLEAN :
       admin_notifications' =
         IF ok THEN markNotificationAsRead_Update(fetches[k].notificationId, session)
         ELSE admin_notifications
  /\ isLoading' = TRUE
  /\ fetches' = [fetches EXCEPT ![k] = fetchNotifications_Call(fetches[k].showAll)]
  /\ result' = NoResult
  /\ UNCHANGED <<users, authUsers, user_profiles, user_subscriptions, trading_signals,
                 purchases, hasPasswordHash, now, call, planQueries, otherTables,
                 session, router, notifications, unreadCount, showAll, mounted>>

\* no call of the component is in flight
ComponentIdle == FreeSlots = DOMAIN fetches

\* the admin console of one account: purchases come in, the account is made
\* an admin and signs in or out. Calls of other sessions are serialised with
\* the component's as they are with each other; the component's own calls
\* overlap.
SpecComponentNext ==
  \/ ComponentIdle /\ Legacy_signUp_Start("a@x.io", "pw1", "salt1", "starter")
  \/ Legacy_signUp_InsertUser
  \/ Legacy_signUp_InsertProfile
  \/ Legacy_signUp_InsertSubscription
  \/ ComponentIdle /\ createPurchase_Start(1, "starter")
  \/ createPurchase_InsertPurchase
  \/ ComponentIdle /\ UsersCanUpdateOwnData(1, "promote")
  \/ \E u \in 0..1 : ComponentIdle /\ SessionChange(u)
  \/ call = Idle /\ useEffect_Mount
  \/ call = Idle /\ setInterval_Fire
  \/ call = Idle /\ onClick_Toggle
  \/ \E k \in DOMAIN fetches : fetchNotifications_Resolve(k)
  \/ \E n \in 1..MaxPurchases : call = Idle /\ handleMarkAsRead_Call(n)
  \/ \E k \in DOMAIN fetches : handleMarkAsRead_Resolve(k)

SpecComponent == Init /\ [][SpecComponentNext]_vars

\* every await of the component resolves: the services catch what their
\* requests throw and the client answers every request
SpecComponentLive ==
  /\ SpecComponent
  /\ \A k \in 1..MaxFetches :
       /\ WF_vars(fetchNotifications_Resolve(k))
       /\ WF_vars(handleMarkAsRead_Resolve(k))

\* ------------------------------------- the console with overlapping calls
\* the calls of the component that may be in flight at once
MaxRacingFetches == 2

InitRace ==
  /\ now = 0
  /\ users = {}
  /\ authUsers = {}
  /\ user_profiles = {}
  /\ user_subscriptions = {}
  /\ trading_signals = {}
  /\ purchases = {}
  /\ admin_notifications = {}
  /\ hasPasswordHash = TRUE
  /\ call = Idle
  /\ result = NoResult
  /\ planQueries = <<>>
  /\ user_signal_access = {}
  /\ mt5_accounts = {}
  /\ mt5_trades = {}
  /\ mt5_performance = {}
  /\ email_logs = {}
  /\ session = 0
  /\ notifications = <<>>
  /\ unreadCount = 0
  /\ isLoading = TRUE
  /\ showAll = FALSE
  /\ mounted = FALSE
  /\ fetches = [k \in 1..MaxRacingFetches |-> Free]
  /\ location = "/"
  /\ gates = [user |-> FALSE, admin |-> FALSE, customerService |-> FALSE]

SpecRace == InitRace /\ [][SpecComponentNext]_vars

\* ------------------------------- tradingSignalService.checkUserSignalAccess
\* faulty variant of the comparison below: a subscription that ends now has
\* expired already
checkUserSignalAccess_ExpiredNow(expires_at, t) == expires_at <= t

\* expiresAt < now; new Date(null) is 1 January 1970, before every now
checkUserSignalAccess_Expired(expires_at, t) == expires_at < t

checkUserSignalAccess_Start(userId) ==
  /\ call = Idle
  /\ call' = [op |-> "checkUserSignalAccess", pc |-> "selectSubscription",
              args |-> [userId |-> userId], log |-> <<>>]
  /\ result' = NoResult
  /\ UNCHANGED <<tables, planQueries, otherTables, browser>>

\* .maybeSingle() gives an error when several rows match, and the error of
\* the lookup is thrown
checkUserSignalAccess_SelectSubscription ==
  /\ call.op = "checkUserSignalAccess" /\ call.pc = "selectSubscription"
  /\ \E ok \in BOOLEAN :
       LET rows == {r \in user_subscriptions :
                      r.user_id = call.args.userId /\ r.status = "active"}
           answered == ok /\ Cardinality(rows) <= 1
           subscription == MaybeSingle(rows)
           log == Append(call.log, Ev("select user_subscriptions", answered))
       IN result' =
            IF ~answered
            THEN [op |-> call.op, args |-> call.args, success |-> FALSE,
                  hasAccess |-> FALSE, error |-> "select user_subscriptions failed",
                  log |-> log]
            ELSE IF subscription = NoRow
            THEN [op |-> call.op, args |-> call.args, success |-> FALSE,
                  hasAccess |-> FALSE, message |-> "No active subscription found",
                  log |-> log]
            ELSE IF checkUserSignalAccess_Expired(subscription.expires_at, now)
            THEN [op |-> call.op, args |-> call.args, success |-> FALSE,
                  hasAccess |-> FALSE, message |-> "Subscription has expired",
                  log |-> log]
            ELSE [op |-> call.op, args |-> call.args, success |-> TRUE,
                  hasAccess |-> TRUE, subscription |-> subscription, log |-> log]
  /\ call' = Idle
  /\ UNCHANGED <<tables, planQueries, otherTables, browser>>

\* the days the services are first called on: 1 January and 31 January
StartDays == {0, 30}

InitOnAnyDay ==
  /\ now \in StartDays
  /\ users = {}
  /\ authUsers = {}
  /\ user_profiles = {}
  /\ user_subscriptions = {}
  /\ trading_signals = {}
  /\ purchases = {}
  /\ admin_notifications = {}
  /\ hasPasswordHash = TRUE
  /\ call = Idle
  /\ result = NoResult
  /\ planQueries = <<>>
  /\ user_signal_access = {}
  /\ mt5_accounts = {}
  /\ mt5_trades = {}
  /\ mt5_performance = {}
  /\ email_logs = {}
  /\ session = 0
  /\ notifications = <<>>
  /\ unreadCount = 0
  /\ isLoading = TRUE
  /\ showAll = FALSE
  /\ mounted = FALSE
  /\ fetches = [k \in 1..MaxFetches |-> Free]
  /\ location = "/"
  /\ gates = [user |-> FALSE, admin |-> FALSE, customerService |-> FALSE]

SpecAccessNext ==
  \/ \E e \in Emails, t \in PaidPlanTypes : Legacy_signUp_Start(e, "pw1", "salt1", t)
  \/ Legacy_signUp_InsertUser
  \/ Legacy_signUp_InsertProfile
  \/ Legacy_signUp_InsertSubscription
  \/ \E u \in 1..MaxUsers, t \in PaidPlanTypes : activateSubscription_Start(u, t)
  \/ activateSubscription_Update
  \/ \E u \in UserIdArgs : checkUserSignalAccess_Start(u)
  \/ checkUserSignalAccess_SelectSubscription
  \/ \E d \in {30, 31} : Tick(d)

SpecAccess == InitOnAnyDay /\ [][SpecAccessNext]_vars

\* --------------------------------------- signal views, called over time
SpecViewsNext ==
  \/ Legacy_signUp_Start("a@x.io", "pw1", "salt1", "starter")
  \/ Legacy_signUp_InsertUser
  \/ Legacy_signUp_InsertProfile
  \/ Legacy_signUp_InsertSubscription
  \/ createSignal_Start("crypto")
  \/ createSignal_InsertSignal
  \/ \E u \in 1..MaxUsers, g \in 1..MaxSignals : trackSignalView_Start(u, g)
  \/ trackSignalView_InsertAccess
  \/ Tick(31)

SpecViews == Init /\ [][SpecViewsNext]_vars

\* ------------------------------------------------- everything composed
Next ==
  \/ SpecAuthNext
  \/ SpecPurchaseNext
  \/ SpecSignalsNext
  \/ SpecPlanNext

Spec == Init /\ [][Next]_vars

\* =====================================================================
\* Properties
\* =====================================================================
HasActiveSubscription(userId) ==
  \E s \in user_subscriptions : s.user_id = userId /\ s.status = "active"

HasUnexpiredActiveSubscription(uid) ==
  \E s \in user_subscriptions :
    s.user_id = uid /\ s.status = "active" /\ s.expires_at # NoTime /\ s.expires_at > now

IsAdmin(uid) == \E u \in users : u.id = uid /\ u.role = "admin"

SomeCallFailed(log) == \E i \in 1..Len(log) : ~log[i].ok

\* C1: a getActiveSignals or getSignalsByType call made with a userId
\* returns success=true with a signal list only if that user has a
\* user_subscriptions row with status 'active'; when the user has none it
\* returns success=false with error 'No active subscription' and no signals.
C1_SignalsOnlyWithActiveSubscription ==
  (result.op \in {"getActiveSignals", "getSignalsByType"} /\ Truthy(result.args.userId)) =>
    /\ result.success =>
         (HasActiveSubscription(result.args.userId) /\ "signals" \in DOMAIN result)
    /\ ~HasActiveSubscription(result.args.userId) =>
         /\ ~result.success
         /\ result.error = "No active subscription"
         /\ "signals" \notin DOMAIN result

C1_Witness ==
  /\ result.op \in {"getActiveSignals", "getSignalsByType"}
  /\ Truthy(result.args.userId)
  /\ result.success
  /\ result.signals # {}

\* C2 as stated: an authenticated identity reads a trading_signals row only
\* while it has a user_subscriptions row with status 'active' and expires_at
\* later than now().
C2_ReadOnlyWhileSubscribed ==
  (result.op = "select trading_signals" /\ result.rows # {}) =>
    HasUnexpiredActiveSubscription(result.uid)

\* C2 amended: an authenticated identity reads a trading_signals row only
\* while it has an active, unexpired user_subscriptions row or its users row
\* has role 'admin'.
C2_ReadOnlyWhileSubscribedOrAdmin ==
  (result.op = "select trading_signals" /\ result.rows # {}) =>
    (HasUnexpiredActiveSubscription(result.uid) \/ IsAdmin(result.uid))

C2_Witness ==
  /\ result.op = "select trading_signals"
  /\ result.rows # {}
  /\ ~IsAdmin(result.uid)

\* C3: whenever processPurchaseAndNotify returns success=true for user U and
\* plan P, U has a user_subscriptions row with plan_type P and status 'active'.
C3_SuccessMeansActivated ==
  (result.op = "processPurchaseAndNotify" /\ result.success) =>
    \E s \in user_subscriptions :
      /\ s.user_id = result.args.userId
      /\ s.plan_type = result.args.planType
      /\ s.status = "active"

\* C4: processPurchaseAndNotify makes its calls in the order insert purchase,
\* activate subscription, send payment email; when the purchase insert fails
\* it returns that failure having made neither of the other two calls.
processPurchaseAndNotify_Order ==
  <<"insert purchases", "update user_subscriptions", "sendPaymentSuccessEmail">>

InOrder(log) ==
  /\ Len(log) <= Len(processPurchaseAndNotify_Order)
  /\ \A i \in 1..Len(log) : log[i].what = processPurchaseAndNotify_Order[i]

C4_PurchaseThenActivateThenEmail ==
  /\ call.op = "processPurchaseAndNotify" =>
       /\ InOrder(call.log)
       /\ call.log # <<>> => call.log[1].ok
  /\ result.op = "processPurchaseAndNotify" =>
       /\ InOrder(result.log)
       /\ Len(result.log) >= 1
       /\ ~result.log[1].ok => (Len(result.log) = 1 /\ ~result.success)
       /\ result.success => Len(result.log) = Len(processPurchaseAndNotify_Order)

C4_Witness ==
  /\ result.op = "processPurchaseAndNotify"
  /\ ~result.log[1].ok
  /\ user_subscriptions # {}

C6_ProviderErrorsPropagate ==
  (result.op # "none" /\ "log" \in DOMAIN result /\ SomeCallFailed(result.log)) =>
    (~result.success /\ result.error # "")

\* C7: legacy signIn returns success=true only when a users row with the
\* given email exists, the password matches its password_hash and its
\* is_active is true; otherwise it returns success=false and no user data.
C7_SignInNeedsMatchingActiveUser ==
  result.op = "legacy.signIn" =>
    /\ result.success =>
         \E u \in users :
           /\ u.email = result.args.email
           /\ BcryptCompare(result.args.password, u.password_hash)
           /\ u.is_active
    /\ ~result.success => "user" \notin DOMAIN result

C7_Witness ==
  /\ result.op = "legacy.signIn"
  /\ result.success
  /\ \E u \in users : u.email # result.args.email /\ ~u.is_active

\* C8: in the provider-delegating signUp, when supabase.auth.signUp returned
\* a user and neither the user_profiles insert nor the user_subscriptions
\* insert failed, the call returns success=true with the auth user's id and
\* a user_subscriptions row with that user id and status 'pending' exists.
C8_ProviderSignUpSucceeds ==
  (/\ result.op = "provider.signUp"
   /\ Len(result.log) >= 2
   /\ ~SomeCallFailed(result.log)) =>
    /\ result.success
    /\ \E a \in authUsers : a.email = result.args.email /\ a.id = result.user.id
    /\ \E s \in user_subscriptions : s.user_id = result.user.id /\ s.status = "pending"

\* C9: a legacy signUp that returns success=true has inserted, in this order,
\* a users row (role 'user', is_active true), a user_profiles row and a
\* user_subscriptions row with status 'pending' for the new user's id; and
\* signUp never creates a subscription with status 'active'.
C9_SignUpInsertsUserProfilePendingSubscription ==
  /\ (result.op = "legacy.signUp" /\ result.success) =>
       /\ result.log = <<Ev("insert users", TRUE), Ev("insert user_profiles", TRUE),
                         Ev("insert user_subscriptions", TRUE)>>
       /\ \E u \in users :
            u.id = result.user.id /\ u.email = result.args.email
              /\ u.role = "user" /\ u.is_active
       /\ Cardinality({p \in user_profiles : p.user_id = result.user.id}) = 1
       /\ Cardinality({s \in user_subscriptions : s.user_id = result.user.id}) = 1
       /\ \A s \in user_subscriptions :
            s.user_id = result.user.id =>
              (s.status = "pending" /\ s.plan_type = result.args.plan_type)
  /\ \A s \in user_subscriptions : s.status # "active"

C9_Witness ==
  /\ result.op = "legacy.signUp"
  /\ result.success
  /\ Cardinality(users) = 2

\* C10: getPlanDetails of each service returns Kickstarter/0/month,
\* Starter/99/month, Pro/199/month and Enterprise/499/3 months for the four
\* plan types, and the Starter plan for every other input.
ExpectedPlan(planType) ==
  CASE planType = "kickstarter" -> [name |-> "Kickstarter", price |-> 0, period |-> "month"]
    [] planType = "pro" -> [name |-> "Pro", price |-> 199, period |-> "month"]
    [] planType = "enterprise" -> [name |-> "Enterprise", price |-> 499, period |-> "3 months"]
    [] OTHER -> [name |-> "Starter", price |-> 99, period |-> "month"]

C10_PlanTable ==
  \A i \in 1..Len(planQueries) :
    LET q == planQueries[i]
    IN /\ {"name", "price", "period"} \subseteq DOMAIN q.plan
       /\ [name |-> q.plan.name, price |-> q.plan.price, period |-> q.plan.period]
            = ExpectedPlan(q.planType)

\* the owner column of a row: id for users, user_id for the other tables
Owner(t, row) == IF t = "users" THEN row.id ELSE row.user_id

OwnerTables ==
  {"users", "user_profiles", "user_subscriptions", "purchases", "user_signal_access",
   "mt5_accounts", "mt5_trades", "mt5_performance"}

C12_NotificationsForAdminsOnly ==
  /\ [](/\ (/\ result.op \in {"select", "update"}
            /\ result.table \in {"admin_notifications", "email_logs"}
            /\ result.rows # {}) => (Authenticated(result.uid) /\ IsAdmin(result.uid))
        /\ (/\ result.op = "getAdminNotifications"
            /\ ~IsAdmin(result.uid)
            /\ result.success) => result.notifications = <<>>)
  /\ [][(call.op = "markNotificationAsRead" /\ ~IsAdmin(call.uid)) =>
          admin_notifications' = admin_notifications]_vars

C12_Witness ==
  /\ result.op = "markNotificationAsRead"
  /\ result.success
  /\ Authenticated(result.uid)
  /\ ~IsAdmin(result.uid)
  /\ \E n \in admin_notifications : n.id = result.args.notificationId /\ ~n.is_read
  /\ \E u \in users : u.role = "admin"
  /\ email_logs # {}

\* the gate each guarded page has to be nested in
GateOf(page) ==
  CASE page = "Dashboard" -> "ProtectedRoute"
    [] page = "AdminDashboard" -> "AdminProtectedRoute"
    [] page = "EnhancedCustomerServiceDashboard" -> "CustomerServiceProtectedRoute"
    [] page = "CustomerDetail" -> "CustomerServiceProtectedRoute"

GuardedPages ==
  {"Dashboard", "AdminDashboard", "EnhancedCustomerServiceDashboard", "CustomerDetail"}

\* C13: whatever the navigations, logins and logouts so far, Dashboard is on
\* screen only while the ProtectedRoute gate is open, AdminDashboard only
\* while the AdminProtectedRoute gate is open, and
\* EnhancedCustomerServiceDashboard and CustomerDetail only while the
\* CustomerServiceProtectedRoute gate is open.
C13_GuardedPagesBehindTheirGates ==
  \A page \in GuardedPages : page \in Rendered => GateOpen(GateOf(page))

C13_Witness ==
  /\ "AdminDashboard" \in Rendered
  /\ ~gates.user
  /\ ~gates.customerService

\* C14: after a fetchNotifications of a render with showAll false has set
\* the list, the list holds unread notifications only; after one of a render
\* with showAll true it holds every notification the session can read, read
\* and unread.
C14_ListMatchesToggle ==
  (result.op = "fetchNotifications" /\ result.success) =>
    /\ ~result.showAll => \A i \in 1..Len(notifications) : ~notifications[i].is_read
    /\ result.showAll =>
         {notifications[i] : i \in 1..Len(notifications)}
           = VisibleRows("admin_notifications", session)

\* C19: after every successful fetchNotifications, unreadCount is the number
\* of entries of the notifications list with is_read false.
C19_UnreadCountMatchesList ==
  (result.op = "fetchNotifications" /\ result.success) =>
    unreadCount = Cardinality({i \in DOMAIN notifications : notifications[i].is_read = FALSE})

C19_Witness ==
  /\ result.op = "fetchNotifications"
  /\ result.success
  /\ Len(notifications) = 2
  /\ unreadCount = 1

\* the step in which the fetchNotifications call of slot k runs to its end
FetchEnds(k) ==
  /\ fetches[k].op = "fetchNotifications"
  /\ fetches'[k].op # "fetchNotifications"

\* C20: every fetchNotifications call runs to its end, and the step that ends
\* it sets isLoading to false, whether getAdminNotifications succeeded or
\* failed; when it failed that step leaves notifications and unreadCount as
\* they were.
C20_FetchAlwaysEndsLoading ==
  /\ \A k \in 1..MaxFetches :
       (fetches[k].op = "fetchNotifications") ~> (fetches[k].op # "fetchNotifications")
  /\ [][\A k \in 1..MaxFetches :
          FetchEnds(k) =>
            /\ isLoading' = FALSE
            /\ result'.op = "fetchNotifications"
            /\ ~result'.success =>
                 (notifications' = notifications /\ unreadCount' = unreadCount)]_vars

C20_Witness ==
  /\ result.op = "fetchNotifications"
  /\ ~result.success
  /\ ~isLoading
  /\ notifications # <<>>
  /\ unreadCount > 0
  /\ \E n \in admin_notifications : n.is_read

\* the same day of the month n calendar months after day t, the last day of
\* that month when it has no such day
CalendarMonthsLater(t, n) ==
  LET m == Date_getMonth(t) + n
      last == MonthStart[m + 1] - MonthStart[m]
      day == IF Date_getDate(t) <= last THEN Date_getDate(t) ELSE last
  IN MonthStart[m] + day - 1

\* C15: a successful activateSubscription(userId, planType) sets status
\* 'active', started_at to the current time and expires_at to the current
\* time plus 3 calendar months for 'enterprise' and plus 1 calendar month for
\* every other planType on exactly the user_subscriptions rows with that
\* user_id and plan_type, and leaves every other row unchanged.
C15_ActivationSetsCalendarExpiry ==
  [][(call.op = "activateSubscription" /\ result'.op = "activateSubscription"
        /\ result'.success) =>
       user_subscriptions' =
         {IF r.user_id = call.args.userId /\ r.plan_type = call.args.planType
          THEN [r EXCEPT !.status = "active", !.started_at = now,
                         !.expires_at = CalendarMonthsLater(
                            now, IF call.args.planType = "enterprise" THEN 3 ELSE 1)]
          ELSE r : r \in user_subscriptions}]_vars

HasValidSubscription(userId) ==
  \E r \in user_subscriptions :
    r.user_id = userId /\ r.status = "active" /\ r.expires_at >= now

ExpectedNotifications(includeRead) ==
  IF includeRead THEN admin_notifications
  ELSE {n \in admin_notifications : n.is_read = FALSE}

\* list holds each row of rows once, newest created_at first
NewestFirstListOf(list, rows) ==
  /\ {list[i] : i \in 1..Len(list)} = rows
  /\ Len(list) = Cardinality(rows)
  /\ \A i, j \in 1..Len(list) : i < j => list[i].created_at >= list[j].created_at

\* C17 as stated: getAdminNotifications(includeRead) returns every
\* admin_notifications row when includeRead is true and exactly the rows with
\* is_read=false when it is false, ordered by created_at from newest to oldest.
C17_ReturnsEveryRowNewestFirst ==
  result.op = "getAdminNotifications" =>
    /\ "notifications" \in DOMAIN result
    /\ NewestFirstListOf(result.notifications,
                         ExpectedNotifications(result.args.includeRead))

\* C17 amended: when the query returns no error, a caller whose users row has
\* role 'admin' is returned those rows in that order and every other caller is
\* returned no row; when the query returns an error no list is returned.
C17_AdminIsReturnedEveryRowNewestFirst ==
  result.op = "getAdminNotifications" =>
    IF SomeCallFailed(result.log)
    THEN ~result.success /\ "notifications" \notin DOMAIN result
    ELSE /\ result.success
         /\ IF RoleIsAdmin(result.uid)
            THEN NewestFirstListOf(result.notifications,
                                   ExpectedNotifications(result.args.includeRead))
            ELSE result.notifications = <<>>

C17_Witness ==
  /\ result.op = "getAdminNotifications"
  /\ result.success
  /\ RoleIsAdmin(result.uid)
  /\ result.args.includeRead
  /\ Len(result.notifications) = 2
  /\ result.notifications[1].created_at > result.notifications[2].created_at
  /\ \E i \in 1..2 : result.notifications[i].is_read

\* the table after is_read has been set on the notification with that id only
ReadOnly(notificationId) ==
  {IF n.id = notificationId THEN [n EXCEPT !.is_read = TRUE] ELSE n :
     n \in admin_notifications}

OnceReadStaysRead ==
  \A n \in admin_notifications :
    n.is_read => \E m \in admin_notifications' : m.id = n.id /\ m.is_read

MarkingAReadRowChangesNothing ==
  (\A n \in admin_notifications : n.id = call.args.notificationId => n.is_read)
    => admin_notifications' = admin_notifications

\* C18 as stated: markNotificationAsRead(id) sets is_read=true on the
\* notification with that id only and is idempotent; no operation ever sets
\* is_read back to false, so a notification once read stays read.
C18_MarkReadSetsThatRowOnly ==
  /\ [][(call.op = "markNotificationAsRead" /\ result'.op = "markNotificationAsRead") =>
          /\ admin_notifications' = ReadOnly(call.args.notificationId)
          /\ MarkingAReadRowChangesNothing]_vars
  /\ [][OnceReadStaysRead]_vars

\* C18 amended: called in the session of a user whose users row has role
\* 'admin', and when the update returns no error, markNotificationAsRead(id)
\* sets is_read=true on the notification with that id only; in every other
\* case it changes no row; it is idempotent, and a notification once read
\* stays read in every later state.
C18_AdminMarkReadSetsThatRowOnly ==
  /\ [][(call.op = "markNotificationAsRead" /\ result'.op = "markNotificationAsRead") =>
          /\ admin_notifications' =
               IF result'.success /\ RoleIsAdmin(call.uid)
               THEN ReadOnly(call.args.notificationId)
               ELSE admin_notifications
          /\ MarkingAReadRowChangesNothing]_vars
  /\ [][OnceReadStaysRead]_vars

C18_Witness ==
  /\ result.op = "markNotificationAsRead"
  /\ result.success
  /\ RoleIsAdmin(result.uid)
  /\ \E n, m \in admin_notifications :
       /\ n.id = result.args.notificationId /\ n.is_read
       /\ m.id # n.id /\ ~m.is_read

\* the user_signal_access rows of one (user, signal) pair
AccessRows(table, userId, signalId) ==
  {a \in table : a.user_id = userId /\ a.signal_id = signalId}

\* a trackSignalView call resolves in this step
TrackResolves ==
  call.op = "trackSignalView" /\ result'.op = "trackSignalView"

AccessRowsNeverChange ==
  \A a \in user_signal_access : a \in user_signal_access'

\* C21 as stated: trackSignalView(userId, signalId), called any number of
\* times for the same pair, returns success=true each time and leaves exactly
\* one user_signal_access row for that pair, with the viewed_at of the first
\* call.
C21_EveryViewSucceedsOneRow ==
  /\ [][TrackResolves =>
          /\ result'.success
          /\ Cardinality(AccessRows(user_signal_access', call.args.userId,
                                    call.args.signalId)) = 1
          /\ AccessRows(user_signal_access, call.args.userId, call.args.signalId) # {}
               => user_signal_access' = user_signal_access]_vars
  /\ [][AccessRowsNeverChange]_vars

\* C21 amended: a call whose insert is accepted, or rejected as a duplicate,
\* returns success=true and leaves exactly one row for the pair, the row of
\* the first accepted call with its viewed_at; a call whose insert is
\* rejected for another reason returns success=false and changes no row.
C21_AcceptedViewSucceedsOneRow ==
  /\ [][TrackResolves =>
          LET before == AccessRows(user_signal_access, call.args.userId,
                                   call.args.signalId)
              after == AccessRows(user_signal_access', call.args.userId,
                                  call.args.signalId)
          IN /\ result'.success =>
                  /\ Cardinality(after) = 1
                  /\ before # {} => user_signal_access' = user_signal_access
                  /\ before = {} => \A a \in after : a.viewed_at = now
             /\ ~result'.success => user_signal_access' = user_signal_access
             /\ result'.log[1].ok => result'.success /\ before = {}
             /\ \A a \in user_signal_access' \ user_signal_access : a \in after]_vars
  /\ [][AccessRowsNeverChange]_vars

C21_Witness ==
  /\ result.op = "trackSignalView"
  /\ result.success
  /\ ~result.log[1].ok
  /\ \E a \in user_signal_access :
       /\ a.user_id = result.args.userId
       /\ a.signal_id = result.args.signalId
       /\ a.viewed_at < now

\* the rows a step adds to a table, and the rows it changes, by id
Inserted(before, after) == {r \in after : \A q \in before : q.id # r.id}

Updated(before, after) == {q \in before : \E r \in after : r.id = q.id /\ r # q}

NonAdmin(uid) == Authenticated(uid) /\ ~RoleIsAdmin(uid)

\* the user_profiles insert of signUp is permitted to the row's user
ProfileInsertsPermitted ==
  \A r \in Inserted(user_profiles, user_profiles') :
    NonAdmin(r.user_id) => InsertPolicy("user_profiles", r.user_id, r)

\* C22: every write the services issue as an authenticated non-admin user on
\* their own data (the purchases insert of createPurchase, the
\* user_subscriptions insert of signUp and update of activateSubscription, the
\* user_profiles insert of signUp) is permitted by a row-level policy on its
\* table, and so is the admin_notifications insert the purchase trigger makes
\* on that user's behalf.
C22_OwnWritesPermitted ==
  [][/\ \A r \in Inserted(purchases, purchases') :
          NonAdmin(r.user_id) => InsertPolicy("purchases", r.user_id, r)
     /\ \A r \in Inserted(user_subscriptions, user_subscriptions') :
          NonAdmin(r.user_id) => InsertPolicy("user_subscriptions", r.user_id, r)
     /\ \A q \in Updated(user_subscriptions, user_subscriptions') :
          NonAdmin(q.user_id) => UpdatePolicy("user_subscriptions", q.user_id, q)
     /\ ProfileInsertsPermitted
     /\ \A r \in Inserted(admin_notifications, admin_notifications') :
          NonAdmin(r.related_user_id) =>
            InsertPolicy("admin_notifications", r.related_user_id, r)]_vars

\* the account a signUp call in progress has created, 0 when none yet
CreatedAccount ==
  IF call.op = "legacy.signUp" THEN call.userId ELSE call.authUserId

\* nothing that belongs to the account id is stored after the step
NothingRemainsOf(id) ==
  /\ \A u \in users' : u.id # id
  /\ \A a \in authUsers' : a.id # id
  /\ \A p \in user_profiles' : p.user_id # id
  /\ \A r \in user_subscriptions' : r.user_id # id

\* C23: signUp (legacy and provider-delegating) is all-or-nothing: whenever
\* it returns success=false, no user account, user_profiles row or
\* user_subscriptions row created by that call remains.
C23_SignUpAllOrNothing ==
  [][(/\ call.op \in {"legacy.signUp", "provider.signUp"}
      /\ result'.op = call.op
      /\ ~result'.success) =>
       (CreatedAccount = 0 \/ NothingRemainsOf(CreatedAccount))]_vars

\* the lists getAdminNotifications answers the current showAll value with
ResultForCurrentShowAll ==
  getAdminNotifications_Query(fetchNotifications_IncludeRead(showAll), session)

\* C24: when several fetchNotifications calls are in flight at once and their
\* responses arrive in any order, then once all of them have completed (the
\* last of them with a list) the displayed list is the result for the current
\* showAll value and not the result of an earlier request.
C24_LastResponseShowsCurrentToggle ==
  (/\ ComponentIdle
   /\ result.op = "fetchNotifications"
   /\ result.success) =>
    notifications \in ResultForCurrentShowAll

====
